---- MODULE Spec2Model ----
(***************************************************************************)
(* A model of chan180-utils: the period-boundary calculator                *)
(* (time/dateTimePeriodParser.ts, time/dateTimePeriods.ts), the            *)
(* localStorage helpers (helpers/lsutils.ts, createSafeTypedLocalStorage,  *)
(* safeJsonParse, safeJsonStringify), getCryptoRandomInt                   *)
(* (env/constants.ts), getRandomPastelColors (colors/pastelColors.ts),     *)
(* isNumeric (numbers/BigNumber.ts), urlQueryStringFromObject,             *)
(* parseValidDate and getUTCStartOfLocalDay (document/document.ts),        *)
(* hexToRgba, and openNewTab and openFacebookProfile (env/).               *)
(*                                                                         *)
(* TLC's integers are 32 bits wide, so a millisecond timestamp that the    *)
(* program returns is kept as a pair (sec, ms) standing for                *)
(* sec * 1000 + ms; the clock is sampled on whole seconds of the first     *)
(* days of January 1970, where Date.now() itself still fits.               *)
(***************************************************************************)
EXTENDS Integers, Sequences, FiniteSets, TLC

VARIABLES
    \* ---- the platform clock and time zone (Date) ----
    clock,          \* Date.now(), in milliseconds
    tz,             \* the local time-zone rule of the process
    \* ---- one call of calculatePeriodBoundaries ----
    pc,             \* position of the call
    fixedPeriod,    \* the argument
    now,            \* calculatePeriodBoundaries' `now` (seconds)
    result,         \* calculatePeriodBoundaries' `result` (seconds)
    dayRead,        \* dayOfWeek of _thisWeekSeconds / dayOfMonth of _thisMonthSeconds
    todayNow,       \* _todaySeconds' `now` (seconds)
    ret,            \* the returned {start, end} (milliseconds)
    \* ---- localStorage and its helpers ----
    store,          \* localStorage: key -> stored string, or Missing
    initializedLS,  \* lsutils.ts: `initialized`
    initializedTyped, \* createSafeTypedLocalStorage.ts: `initialized`
    helperLS,       \* key sets of the helpers createLocalStorageHelper returned
    helperTyped,    \* key sets of the helpers createSafeTypedLocalStorage returned
    factoryLog,     \* per factory, the outcomes of its calls, in order
    flips,          \* per factory, how many times its flag changed value
    last,           \* the last helper operation and how it ended
    \* ---- one call of getCryptoRandomInt ----
    rArgs,          \* the arguments <<min, max>>
    safeMin,        \* getCryptoRandomInt's `safeMin`
    safeMax,        \* getCryptoRandomInt's `safeMax`
    range,          \* getCryptoRandomInt's `range`
    limit,          \* getCryptoRandomInt's `limit`
    array0,         \* array[0], the word crypto.getRandomValues wrote last
    rpc,            \* position of the call
    rRet,           \* the returned integer
    caller,         \* who called getCryptoRandomInt
    \* ---- one call of getRandomPastelColors ----
    countArg,       \* the argument
    count,          \* `count` after lines 103-108
    used,           \* the Set `used`
    picked,         \* the array `result`
    ppc,            \* position of the call
    \* ---- one call of isNumeric ----
    numValue,       \* the argument `value`
    numOptions,     \* the argument `options`
    numRet,         \* <<>> before the call, <<returned boolean>> after it
    \* ---- one call of urlQueryStringFromObject ----
    queryObj,       \* the argument `obj`
    queryRet,       \* <<>> before the call, <<outcome>> after it
    \* ---- one call of hexToRgba ----
    hexArg,         \* the argument `hex`
    alphaArg,       \* the argument `alpha`
    hexRet,         \* <<>> before the call, <<returned value>> after it
    \* ---- one call of getUTCStartOfLocalDay ----
    daySource,      \* the argument `source`
    dayOffset,      \* minutes the local time zone is ahead of UTC
    dayRet,         \* <<>> before the call, <<outcome>> after it
    \* ---- one call of openFacebookProfile and its deferred check ----
    fbUserId,       \* the argument
    mobile,         \* what isMobile() answers
    fbPc,           \* position of the call
    elapsed,        \* Date.now() - now, in milliseconds
    appOpened,      \* whether the Facebook app has taken the deep link
    href,           \* window.location.href, <<>> while it is the page's own
    tabs,           \* the links window.open was called with, in order
    \* ---- safeJsonStringify followed by safeJsonParse ----
    jsonValue,      \* the value handed to safeJsonStringify
    jsonText,       \* <<>> before the call, <<outcome of safeJsonStringify>> after it
    jsonBack        \* <<>> before the call, <<outcome of safeJsonParse>> after it

periodVars == <<clock, tz, pc, fixedPeriod, now, result, dayRead, todayNow, ret>>
storageVars == <<store, initializedLS, initializedTyped, helperLS, helperTyped,
                 factoryLog, flips, last>>
randomVars == <<rArgs, safeMin, safeMax, range, limit, array0, rpc, rRet, caller,
                countArg, count, used, picked, ppc>>
numericVars == <<numValue, numOptions, numRet>>
queryVars == <<queryObj, queryRet>>
hexVars == <<hexArg, alphaArg, hexRet>>
dayVars == <<daySource, dayOffset, dayRet>>
facebookVars == <<fbUserId, mobile, fbPc, elapsed, appOpened, href, tabs>>
jsonVars == <<jsonValue, jsonText, jsonBack>>
moreVars == <<hexVars, dayVars, facebookVars, jsonVars>>
utilVars == <<randomVars, numericVars, queryVars, moreVars>>

vars == <<periodVars, storageVars, utilVars>>

(***************************************************************************)
(* JavaScript values                                                       *)
(***************************************************************************)
Num(n) == [kind |-> "number", n |-> n]
NaN == [kind |-> "NaN", n |-> 0]
Undefined == [kind |-> "undefined", n |-> 0]
Null == [kind |-> "null", n |-> 0]

\* ToNumber, as applied by the arithmetic operators
ToNumber(v) ==
    CASE v.kind = "number" -> v
      [] v.kind = "null" -> Num(0)
      [] OTHER -> NaN

JsMul(a, b) ==
    IF ToNumber(a).kind = "NaN" \/ ToNumber(b).kind = "NaN" THEN NaN
    ELSE Num(ToNumber(a).n * ToNumber(b).n)

JsSub(a, b) ==
    IF ToNumber(a).kind = "NaN" \/ ToNumber(b).kind = "NaN" THEN NaN
    ELSE Num(ToNumber(a).n - ToNumber(b).n)

\* SameValueZero, the comparison of Array.prototype.includes
SameValueZero(a, b) == a = b

Includes(list, v) == \E i \in 1..Len(list) : SameValueZero(list[i], v)

\* a millisecond quantity sec * 1000 + ms
Millis(sec, ms) == [kind |-> "number", sec |-> sec, ms |-> ms]
MillisNaN == [kind |-> "NaN", sec |-> 0, ms |-> 0]

(***************************************************************************)
(* time/dateTimePeriods.ts                                                 *)
(***************************************************************************)
PeriodLengthInDays ==
    [AllTime |-> -1, Custom |-> 0, One |-> 1, Seven |-> 7, Thirty |-> 30,
     ThisWeek |-> 77, ThisMonth |-> 33, ThreeMonths |-> 90, Today |-> 11]

\* PeriodLengthInDays.<name> as the emitted JavaScript evaluates it: a member
\* the enum object does not have reads as undefined
EnumMember(name) ==
    IF name \in DOMAIN PeriodLengthInDays THEN Num(PeriodLengthInDays[name])
    ELSE Undefined

EnumValues == {Num(PeriodLengthInDays[m]) : m \in DOMAIN PeriodLengthInDays}

(***************************************************************************)
(* The platform's Date: local time zone, local midnight, day of week and   *)
(* day of month.  Instants are whole seconds since the epoch.              *)
(***************************************************************************)
SecondsPerDay == 24 * 60 * 60

MaxDay == 8

\* the instants at which the clock is sampled (seconds since the epoch)
DayOffsets == {0, 12 * 60 * 60, SecondsPerDay - 1}
ClockSamples == {d * SecondsPerDay + s : d \in 1..MaxDay, s \in DayOffsets}

\* A time-zone rule: UTC offset `before` (seconds) up to the instant `at`,
\* `after` from then on.  The two changing rules move the clocks on
\* Wednesday 7 January 1970 at 01:00 UTC, forward and back by one hour.
TZRules ==
    { [before |-> 0, after |-> 0, at |-> 0],
      [before |-> 2 * 3600, after |-> 2 * 3600, at |-> 0],
      [before |-> -(5 * 3600), after |-> -(5 * 3600), at |-> 0],
      [before |-> 2 * 3600, after |-> 3 * 3600, at |-> 6 * SecondsPerDay + 3600],
      [before |-> 3 * 3600, after |-> 2 * 3600, at |-> 6 * SecondsPerDay + 3600] }

Offset(t) == IF t < tz.at THEN tz.before ELSE tz.after

\* the local calendar day of instant t, counted from 1 January 1970
LocalDay(t) == (t + Offset(t)) \div SecondsPerDay

\* new Date(t).setHours(0, 0, 0, 0): the instant at which the local clock
\* shows 00:00:00.000 on the local calendar day of t
LocalMidnight(t) ==
    LET m1 == LocalDay(t) * SecondsPerDay - tz.before
        m2 == LocalDay(t) * SecondsPerDay - tz.after
    IN  IF m1 < tz.at THEN m1 ELSE m2

\* the local midnight that starts local calendar day d
MidnightOfDay(d) ==
    LET m1 == d * SecondsPerDay - tz.before
        m2 == d * SecondsPerDay - tz.after
    IN  IF m1 < tz.at THEN m1 ELSE m2

\* Date.prototype.getDay: 0 = Sunday; 1 January 1970 was a Thursday
GetDay(t) == (4 + LocalDay(t)) % 7

\* Date.prototype.getDate, for December 1969 .. February 1970
GetDate(t) ==
    LET d == LocalDay(t)
    IN  IF d < 0 THEN d + 32 ELSE IF d < 31 THEN d + 1 ELSE d - 30

\* Date.now() / 1000
NowInSeconds == Num(clock \div 1000)

(***************************************************************************)
(* time/dateTimePeriodParser.ts                                            *)
(***************************************************************************)
\* the arguments tried: every enumeration value, and values outside it
PeriodInputs == EnumValues \cup {Num(3), Num(5), Undefined, Null, NaN}

NoValue == [kind |-> "none", n |-> 0]
NoResult == [start |-> NoValue, end |-> NoValue]
NoRet == [start |-> [kind |-> "none", sec |-> 0, ms |-> 0],
          end |-> [kind |-> "none", sec |-> 0, ms |-> 0]]

FixedLookbackList ==
    << EnumMember("One"), EnumMember("Three"), EnumMember("Seven"),
       EnumMember("Thirty"), EnumMember("ThreeMonths") >>

\* x * 1000 of the return statement
TimesThousand(x) == IF x.kind = "number" THEN Millis(x.n, 0) ELSE MillisNaN

PeriodInit ==
    /\ clock \in {1000 * t : t \in ClockSamples}
    /\ tz \in TZRules
    /\ pc = "idle"
    /\ fixedPeriod = NoValue
    /\ now = NoValue
    /\ result = NoResult
    /\ dayRead = NoValue
    /\ todayNow = NoValue
    /\ ret = NoRet
    /\ store = [k \in {"theme", "user"} |-> [kind |-> "null", s |-> ""]]
    /\ initializedLS = FALSE
    /\ initializedTyped = FALSE
    /\ helperLS = <<>>
    /\ helperTyped = <<>>
    /\ factoryLog = [LS |-> <<>>, Typed |-> <<>>]
    /\ flips = [LS |-> 0, Typed |-> 0]
    /\ last = [helper |-> "none", op |-> "none", key |-> "", storeFails |-> FALSE,
               threw |-> FALSE, value |-> [kind |-> "undefined", s |-> ""]]
    /\ rArgs = <<[kind |-> "undefined", n |-> 0], [kind |-> "undefined", n |-> 0]>>
    /\ safeMin = 0
    /\ safeMax = 0
    /\ range = 0
    /\ limit = 0
    /\ array0 = 0
    /\ rpc = "idle"
    /\ rRet = [kind |-> "none", n |-> 0]
    /\ caller = "none"
    /\ countArg = [kind |-> "undefined", n |-> 0]
    /\ count = [kind |-> "none", n |-> 0]
    /\ used = {}
    /\ picked = <<>>
    /\ ppc = "idle"
    /\ numValue = [kind |-> "undefined", n |-> 0]
    /\ numOptions = [notNegative |-> FALSE, isInteger |-> FALSE, allowEmpty |-> FALSE]
    /\ numRet = <<>>
    /\ queryObj = [kind |-> "undefined", n |-> 0]
    /\ queryRet = <<>>
    /\ hexArg = [kind |-> "undefined", n |-> 0]
    /\ alphaArg = [kind |-> "undefined", n |-> 0]
    /\ hexRet = <<>>
    /\ daySource = [kind |-> "undefined", n |-> 0]
    /\ dayOffset = 0
    /\ dayRet = <<>>
    /\ fbUserId = [kind |-> "undefined", n |-> 0]
    /\ mobile = FALSE
    /\ fbPc = "idle"
    /\ elapsed = 0
    /\ appOpened = FALSE
    /\ href = <<>>
    /\ tabs = <<>>
    /\ jsonValue = [kind |-> "undefined", n |-> 0]
    /\ jsonText = <<>>
    /\ jsonBack = <<>>

\* time passes: the clock moves to a later instant
Tick ==
    /\ pc \notin {"return", "done"}
    /\ \E t \in ClockSamples : 1000 * t > clock /\ clock' = 1000 * t
    /\ UNCHANGED <<storageVars, utilVars>>
    /\ UNCHANGED <<tz, pc, fixedPeriod, now, result, dayRead, todayNow, ret>>

\* lines 32-34: the call, its read of `now`, and the initial result
calculatePeriodBoundaries(p) ==
    /\ pc = "idle"
    /\ fixedPeriod' = p
    /\ now' = NowInSeconds
    /\ result' = [start |-> Num(0), end |-> NowInSeconds]
    /\ pc' = "branch"
    /\ UNCHANGED <<storageVars, utilVars>>
    /\ UNCHANGED <<clock, tz, dayRead, todayNow, ret>>

IsFixedLookback(p) == Includes(FixedLookbackList, p)

\* lines 37-48
FixedLookback ==
    /\ pc = "branch"
    /\ IsFixedLookback(fixedPeriod)
    /\ result' = [end |-> now,
                  start |-> JsSub(now, JsMul(JsMul(JsMul(fixedPeriod, Num(24)), Num(60)), Num(60)))]
    /\ pc' = "return"
    /\ UNCHANGED <<storageVars, utilVars>>
    /\ UNCHANGED <<clock, tz, fixedPeriod, now, dayRead, todayNow, ret>>

\* lines 51-53: Today, up to the call of _todaySeconds
TodayBranch ==
    /\ pc = "branch"
    /\ ~IsFixedLookback(fixedPeriod)
    /\ fixedPeriod = EnumMember("Today")
    /\ pc' = "todayNow"
    /\ UNCHANGED <<storageVars, utilVars>>
    /\ UNCHANGED <<clock, tz, fixedPeriod, now, result, dayRead, todayNow, ret>>

\* lines 57-59 and 93: This Week, up to the read of the day of the week
ThisWeekBranch ==
    /\ pc = "branch"
    /\ ~IsFixedLookback(fixedPeriod)
    /\ fixedPeriod # EnumMember("Today")
    /\ fixedPeriod = EnumMember("ThisWeek")
    /\ dayRead' = Num(IF GetDay(clock \div 1000) = 0 THEN 7 ELSE GetDay(clock \div 1000))
    /\ pc' = "todayNow"
    /\ UNCHANGED <<storageVars, utilVars>>
    /\ UNCHANGED <<clock, tz, fixedPeriod, now, result, todayNow, ret>>

\* lines 63-65 and 101: This Month, up to the read of the day of the month
ThisMonthBranch ==
    /\ pc = "branch"
    /\ ~IsFixedLookback(fixedPeriod)
    /\ fixedPeriod \notin {EnumMember("Today"), EnumMember("ThisWeek")}
    /\ fixedPeriod = EnumMember("ThisMonth")
    /\ dayRead' = Num(GetDate(clock \div 1000))
    /\ pc' = "todayNow"
    /\ UNCHANGED <<storageVars, utilVars>>
    /\ UNCHANGED <<clock, tz, fixedPeriod, now, result, todayNow, ret>>

\* line 85: _todaySeconds reads its own `now`
TodaySecondsNow ==
    /\ pc = "todayNow"
    /\ todayNow' = NowInSeconds
    /\ pc' = "todayMidnight"
    /\ UNCHANGED <<storageVars, utilVars>>
    /\ UNCHANGED <<clock, tz, fixedPeriod, now, result, dayRead, ret>>

\* lines 86-88, then 94 / 102 and 53 / 59 / 65: _todaySeconds reads the
\* local midnight and returns; _thisWeekSeconds / _thisMonthSeconds add the
\* whole days, and the caller subtracts from `now`
TodaySecondsMidnight ==
    /\ pc = "todayMidnight"
    /\ LET midnight == Num((1000 * LocalMidnight(clock \div 1000)) \div 1000)
           todaySeconds == JsSub(todayNow, midnight)
           wholeDays == JsMul(JsMul(JsMul(JsSub(dayRead, Num(1)), Num(24)), Num(60)), Num(60))
           timeInSeconds ==
               IF fixedPeriod = EnumMember("Today") THEN todaySeconds
               ELSE Num(wholeDays.n + todaySeconds.n)
       IN  result' = [end |-> now, start |-> JsSub(now, timeInSeconds)]
    /\ pc' = "return"
    /\ UNCHANGED <<storageVars, utilVars>>
    /\ UNCHANGED <<clock, tz, fixedPeriod, now, dayRead, todayNow, ret>>

\* lines 69-72
CustomBranch ==
    /\ pc = "branch"
    /\ ~IsFixedLookback(fixedPeriod)
    /\ fixedPeriod \notin {EnumMember("Today"), EnumMember("ThisWeek"), EnumMember("ThisMonth")}
    /\ fixedPeriod = EnumMember("Custom")
    /\ result' = [end |-> now, start |-> now]
    /\ pc' = "return"
    /\ UNCHANGED <<storageVars, utilVars>>
    /\ UNCHANGED <<clock, tz, fixedPeriod, now, dayRead, todayNow, ret>>

\* lines 75-78
AllTimeBranch ==
    /\ pc = "branch"
    /\ ~IsFixedLookback(fixedPeriod)
    /\ fixedPeriod \notin {EnumMember("Today"), EnumMember("ThisWeek"),
                           EnumMember("ThisMonth"), EnumMember("Custom")}
    /\ fixedPeriod = EnumMember("AllTime")
    /\ result' = [end |-> now, start |-> Num(0)]
    /\ pc' = "return"
    /\ UNCHANGED <<storageVars, utilVars>>
    /\ UNCHANGED <<clock, tz, fixedPeriod, now, dayRead, todayNow, ret>>

\* no branch of lines 37-78 is taken: `result` keeps its initial value
NoBranch ==
    /\ pc = "branch"
    /\ ~IsFixedLookback(fixedPeriod)
    /\ fixedPeriod \notin {EnumMember("Today"), EnumMember("ThisWeek"),
                           EnumMember("ThisMonth"), EnumMember("Custom"),
                           EnumMember("AllTime")}
    /\ pc' = "return"
    /\ UNCHANGED <<storageVars, utilVars>>
    /\ UNCHANGED <<clock, tz, fixedPeriod, now, result, dayRead, todayNow, ret>>

\* line 80
Return ==
    /\ pc = "return"
    /\ ret' = [start |-> TimesThousand(result.start), end |-> TimesThousand(result.end)]
    /\ pc' = "done"
    /\ UNCHANGED <<storageVars, utilVars>>
    /\ UNCHANGED <<clock, tz, fixedPeriod, now, result, dayRead, todayNow>>

\* the caller is ready for the next call
NextCall ==
    /\ pc = "done"
    /\ pc' = "idle"
    /\ fixedPeriod' = NoValue
    /\ now' = NoValue
    /\ result' = NoResult
    /\ dayRead' = NoValue
    /\ todayNow' = NoValue
    /\ ret' = NoRet
    /\ UNCHANGED <<storageVars, utilVars>>
    /\ UNCHANGED <<clock, tz>>

PeriodNext ==
    \/ Tick
    \/ \E p \in PeriodInputs : calculatePeriodBoundaries(p)
    \/ FixedLookback
    \/ TodayBranch
    \/ ThisWeekBranch
    \/ ThisMonthBranch
    \/ TodaySecondsNow
    \/ TodaySecondsMidnight
    \/ CustomBranch
    \/ AllTimeBranch
    \/ NoBranch
    \/ Return
    \/ NextCall


(***************************************************************************)
(* JavaScript values that are stored, and JSON                             *)
(***************************************************************************)
JStr(s) == [kind |-> "string", s |-> s]
JNull == [kind |-> "null", s |-> ""]
JUndefined == [kind |-> "undefined", s |-> ""]
\* a plain object, named by its source text
JObject(s) == [kind |-> "object", s |-> s]
\* const c = {}; c.self = c
JCircular == [kind |-> "object", s |-> "circular"]
\* Object.create(null): an object with no toString
JNullProto == [kind |-> "object", s |-> "Object.create(null)"]

DataValues == {JStr("dark"), JUndefined, JCircular, JNullProto}

Returned(v) == [threw |-> FALSE, value |-> v]
Thrown == [threw |-> TRUE, value |-> JUndefined]

\* JSON.stringify: throws on a circular structure, gives undefined for undefined
JsonStringify(v) ==
    CASE v = JCircular -> Thrown
      [] v = JUndefined -> Returned(JUndefined)
      [] v = JNullProto -> Returned(JStr("{}"))
      [] v = JObject("{a:1}") -> Returned(JStr("{\"a\":1}"))
      [] v = JObject("{}") -> Returned(JStr("{}"))
      [] v = JNull -> Returned(JStr("null"))
      [] v = JStr("dark") -> Returned(JStr("\"dark\""))
      [] OTHER -> Thrown

\* ToString, as String(v) and localStorage.setItem apply it: throws for an
\* object that cannot be converted to a primitive value
ToStringOf(v) ==
    CASE v.kind = "string" -> Returned(v)
      [] v = JUndefined -> Returned(JStr("undefined"))
      [] v = JNull -> Returned(JStr("null"))
      [] v = JNullProto -> Thrown
      [] OTHER -> Returned(JStr("[object Object]"))

\* JSON.parse, on the texts the store can hold
JsonParse(s) ==
    CASE s = "\"dark\"" -> Returned(JStr("dark"))
      [] s = "{\"a\":1}" -> Returned(JObject("{a:1}"))
      [] s = "{}" -> Returned(JObject("{}"))
      [] s = "null" -> Returned(JNull)
      [] OTHER -> Thrown

\* safeJsonStringify.ts
safeJsonStringify(value) ==
    IF JsonStringify(value).threw THEN JNull ELSE JsonStringify(value).value

\* safeJsonParse.ts
safeJsonParse(input) ==
    IF input = JNull \/ input = JUndefined \/ input = JStr("") \/ input.kind # "string"
    THEN JNull
    ELSE IF JsonParse(input.s).threw THEN JNull ELSE JsonParse(input.s).value

(***************************************************************************)
(* localStorage                                                            *)
(***************************************************************************)
Keys == {"theme", "user"}
\* the key lists the factories are called with
KeyLists == {<<"theme">>, <<"theme", "user">>}

MaxFactoryCalls == 2

Range(f) == {f[i] : i \in DOMAIN f}

\* a key the store holds nothing for reads as null
StoreGet(key) == store[key]

\* the last operation: which helper, which method, on which key, whether the
\* store threw in it, and how it ended
NoOp == [helper |-> "none", op |-> "none", key |-> "", storeFails |-> FALSE,
         threw |-> FALSE, value |-> JUndefined]
Outcome(helper, op, key, storeFails, r) ==
    [helper |-> helper, op |-> op, key |-> key, storeFails |-> storeFails,
     threw |-> r.threw, value |-> r.value]

StorageInit ==
    /\ store = [k \in Keys |-> JNull]
    /\ initializedLS = FALSE
    /\ initializedTyped = FALSE
    /\ helperLS = <<>>
    /\ helperTyped = <<>>
    /\ factoryLog = [LS |-> <<>>, Typed |-> <<>>]
    /\ flips = [LS |-> 0, Typed |-> 0]
    /\ last = NoOp
    /\ clock = 1000 * SecondsPerDay
    /\ tz = [before |-> 0, after |-> 0, at |-> 0]
    /\ pc = "idle"
    /\ fixedPeriod = NoValue
    /\ now = NoValue
    /\ result = NoResult
    /\ dayRead = NoValue
    /\ todayNow = NoValue
    /\ ret = NoRet
    /\ rArgs = <<[kind |-> "undefined", n |-> 0], [kind |-> "undefined", n |-> 0]>>
    /\ safeMin = 0
    /\ safeMax = 0
    /\ range = 0
    /\ limit = 0
    /\ array0 = 0
    /\ rpc = "idle"
    /\ rRet = [kind |-> "none", n |-> 0]
    /\ caller = "none"
    /\ countArg = [kind |-> "undefined", n |-> 0]
    /\ count = [kind |-> "none", n |-> 0]
    /\ used = {}
    /\ picked = <<>>
    /\ ppc = "idle"
    /\ numValue = [kind |-> "undefined", n |-> 0]
    /\ numOptions = [notNegative |-> FALSE, isInteger |-> FALSE, allowEmpty |-> FALSE]
    /\ numRet = <<>>
    /\ queryObj = [kind |-> "undefined", n |-> 0]
    /\ queryRet = <<>>
    /\ hexArg = [kind |-> "undefined", n |-> 0]
    /\ alphaArg = [kind |-> "undefined", n |-> 0]
    /\ hexRet = <<>>
    /\ daySource = [kind |-> "undefined", n |-> 0]
    /\ dayOffset = 0
    /\ dayRet = <<>>
    /\ fbUserId = [kind |-> "undefined", n |-> 0]
    /\ mobile = FALSE
    /\ fbPc = "idle"
    /\ elapsed = 0
    /\ appOpened = FALSE
    /\ href = <<>>
    /\ tabs = <<>>
    /\ jsonValue = [kind |-> "undefined", n |-> 0]
    /\ jsonText = <<>>
    /\ jsonBack = <<>>

\* localStorage.setItem(key, v) inside try { } catch { }: the conversion of v
\* to a string or the store itself may throw, and then nothing is stored
TrySetItem(key, v, storeFails) ==
    IF storeFails \/ ToStringOf(v).threw THEN store
    ELSE [store EXCEPT ![key] = ToStringOf(v).value]

\* localStorage.removeItem(key) inside try { } catch { }
TryRemoveItem(key, storeFails) ==
    IF storeFails THEN store ELSE [store EXCEPT ![key] = JNull]


(***************************************************************************)
(* helpers/lsutils.ts: createLocalStorageHelper                            *)
(***************************************************************************)
\* createLocalStorageHelper without the assignment of line 60: the flag is
\* tested and never set
createLocalStorageHelper_flagNeverSet(keys) ==
    /\ Len(factoryLog.LS) < MaxFactoryCalls
    /\ IF initializedLS
       THEN /\ factoryLog' = [factoryLog EXCEPT !.LS = Append(@, "threw")]
            /\ last' = Outcome("LS", "create", "", FALSE, Thrown)
            /\ UNCHANGED helperLS
       ELSE /\ helperLS' = Append(helperLS, keys)
            /\ factoryLog' = [factoryLog EXCEPT !.LS = Append(@, "returned")]
            /\ last' = Outcome("LS", "create", "", FALSE, Returned(JUndefined))
    /\ UNCHANGED <<periodVars, utilVars>>
    /\ UNCHANGED <<store, initializedLS, initializedTyped, helperTyped, flips>>

\* lines 50-60 and 96
createLocalStorageHelper(keys) ==
    /\ Len(factoryLog.LS) < MaxFactoryCalls
    /\ IF initializedLS
       THEN /\ factoryLog' = [factoryLog EXCEPT !.LS = Append(@, "threw")]
            /\ last' = Outcome("LS", "create", "", FALSE, Thrown)
            /\ UNCHANGED <<periodVars, utilVars>>
            /\ UNCHANGED <<initializedLS, helperLS, flips>>
       ELSE /\ initializedLS' = TRUE
            /\ flips' = [flips EXCEPT !.LS = @ + 1]
            /\ helperLS' = Append(helperLS, keys)
            /\ factoryLog' = [factoryLog EXCEPT !.LS = Append(@, "returned")]
            /\ last' = Outcome("LS", "create", "", FALSE, Returned(JUndefined))
    /\ UNCHANGED <<periodVars, utilVars>>
    /\ UNCHANGED <<store, initializedTyped, helperTyped>>

\* the keys a caller may pass to a helper of the list hs
HelperKeys(hs) == UNION {Range(hs[i]) : i \in DOMAIN hs}

\* lines 64-72
LocalStorageHelper_set(key, data, shouldStringifyData, storeFails) ==
    /\ key \in HelperKeys(helperLS)
    /\ LET v == IF shouldStringifyData THEN JsonStringify(data) ELSE Returned(data)
       IN  store' = IF v.threw THEN store ELSE TrySetItem(key, v.value, storeFails)
    /\ last' = Outcome("LS", "set", key, storeFails, Returned(JUndefined))
    /\ UNCHANGED <<periodVars, utilVars>>
    /\ UNCHANGED <<initializedLS, initializedTyped, helperLS, helperTyped, factoryLog, flips>>

\* get without the `|| ""` of line 76
LocalStorageHelper_get_noDefault(key, storeFails) ==
    /\ key \in HelperKeys(helperLS)
    /\ last' = Outcome("LS", "get", key, storeFails,
                  IF storeFails THEN Thrown ELSE Returned(StoreGet(key)))
    /\ UNCHANGED <<periodVars, utilVars>>
    /\ UNCHANGED <<store, initializedLS, initializedTyped, helperLS, helperTyped, factoryLog, flips>>

\* lines 75-77
LocalStorageHelper_get(key, storeFails) ==
    /\ key \in HelperKeys(helperLS)
    /\ last' = Outcome("LS", "get", key, storeFails,
                  IF storeFails THEN Thrown
                  ELSE IF StoreGet(key) \in {JNull, JStr("")} THEN Returned(JStr(""))
                  ELSE Returned(StoreGet(key)))
    /\ UNCHANGED <<periodVars, utilVars>>
    /\ UNCHANGED <<store, initializedLS, initializedTyped, helperLS, helperTyped, factoryLog, flips>>

\* lines 80-88 (and 146-154): getItem and JSON.parse inside one try
ParsedInsideTry(key, storeFails) ==
    IF storeFails THEN Returned(JNull)
    ELSE IF StoreGet(key) \in {JNull, JStr("")} THEN Returned(JNull)
    ELSE IF JsonParse(StoreGet(key).s).threw THEN Returned(JNull)
    ELSE Returned(JsonParse(StoreGet(key).s).value)

\* lines 80-88
LocalStorageHelper_getParsed(key, storeFails) ==
    /\ key \in HelperKeys(helperLS)
    /\ last' = Outcome("LS", "getParsed", key, storeFails, ParsedInsideTry(key, storeFails))
    /\ UNCHANGED <<periodVars, utilVars>>
    /\ UNCHANGED <<store, initializedLS, initializedTyped, helperLS, helperTyped, factoryLog, flips>>

\* lines 91-93
LocalStorageHelper_remove(key, storeFails) ==
    /\ key \in HelperKeys(helperLS)
    /\ store' = IF storeFails THEN store ELSE [store EXCEPT ![key] = JNull]
    /\ last' = Outcome("LS", "remove", key, storeFails, IF storeFails THEN Thrown ELSE Returned(JUndefined))
    /\ UNCHANGED <<periodVars, utilVars>>
    /\ UNCHANGED <<initializedLS, initializedTyped, helperLS, helperTyped, factoryLog, flips>>

(***************************************************************************)
(* helpers/createSafeTypedLocalStorage.ts                                  *)
(***************************************************************************)
\* lines 64-79
createSafeTypedLocalStorage(keys) ==
    /\ Len(factoryLog.Typed) < MaxFactoryCalls
    /\ IF initializedTyped
       THEN /\ factoryLog' = [factoryLog EXCEPT !.Typed = Append(@, "threw")]
            /\ last' = Outcome("Typed", "create", "", FALSE, Thrown)
            /\ UNCHANGED <<periodVars, utilVars>>
            /\ UNCHANGED <<initializedTyped, helperTyped, flips>>
       ELSE /\ initializedTyped' = TRUE
            /\ flips' = [flips EXCEPT !.Typed = @ + 1]
            /\ helperTyped' = Append(helperTyped, keys)
            /\ factoryLog' = [factoryLog EXCEPT !.Typed = Append(@, "returned")]
            /\ last' = Outcome("Typed", "create", "", FALSE, Returned(JUndefined))
    /\ UNCHANGED <<periodVars, utilVars>>
    /\ UNCHANGED <<store, initializedLS, helperLS>>

\* lines 86-94
SafeTyped_set(key, data, shouldStringifyData, storeFails) ==
    /\ key \in HelperKeys(helperTyped)
    /\ LET v == IF shouldStringifyData THEN JsonStringify(data) ELSE Returned(data)
       IN  store' = IF v.threw THEN store ELSE TrySetItem(key, v.value, storeFails)
    /\ last' = Outcome("Typed", "set", key, storeFails, Returned(JUndefined))
    /\ UNCHANGED <<periodVars, utilVars>>
    /\ UNCHANGED <<initializedLS, initializedTyped, helperLS, helperTyped, factoryLog, flips>>

\* lines 101-108
SafeTyped_get(key, storeFails) ==
    /\ key \in HelperKeys(helperTyped)
    /\ last' = Outcome("Typed", "get", key, storeFails,
                  IF storeFails THEN Returned(JNull) ELSE Returned(StoreGet(key)))
    /\ UNCHANGED <<periodVars, utilVars>>
    /\ UNCHANGED <<store, initializedLS, initializedTyped, helperLS, helperTyped, factoryLog, flips>>

\* lines 116-119
SafeTyped_getParsed(key, storeFails) ==
    /\ key \in HelperKeys(helperTyped)
    /\ last' = Outcome("Typed", "getParsed", key, storeFails,
                  IF storeFails THEN Thrown ELSE Returned(safeJsonParse(StoreGet(key))))
    /\ UNCHANGED <<periodVars, utilVars>>
    /\ UNCHANGED <<store, initializedLS, initializedTyped, helperLS, helperTyped, factoryLog, flips>>

\* lines 125-130
SafeTyped_remove(key, storeFails) ==
    /\ key \in HelperKeys(helperTyped)
    /\ store' = TryRemoveItem(key, storeFails)
    /\ last' = Outcome("Typed", "remove", key, storeFails, Returned(JUndefined))
    /\ UNCHANGED <<periodVars, utilVars>>
    /\ UNCHANGED <<initializedLS, initializedTyped, helperLS, helperTyped, factoryLog, flips>>

\* lines 136-141: keys.forEach(removeItem) inside one try; removeItem throws
\* at the failAt-th key (0: at none), which ends the forEach
SafeTyped_clearAll(h, failAt) ==
    /\ h \in DOMAIN helperTyped
    /\ failAt \in 0..Len(helperTyped[h])
    /\ LET keys == helperTyped[h]
           removed == {keys[i] : i \in {j \in 1..Len(keys) : failAt = 0 \/ j < failAt}}
       IN  store' = [k \in Keys |-> IF k \in removed THEN JNull ELSE store[k]]
    /\ last' = Outcome("Typed", "clearAll", "", failAt # 0, Returned(JUndefined))
    /\ UNCHANGED <<periodVars, utilVars>>
    /\ UNCHANGED <<initializedLS, initializedTyped, helperLS, helperTyped, factoryLog, flips>>

(***************************************************************************)
(* helpers/lsutils.ts: safeLocalStorage, lines 185-255, and its earlier    *)
(* variant, lines 111-166                                                  *)
(***************************************************************************)
\* lines 192-210: the value is computed before the try
safeLocalStorage_set(key, data, shouldStringifyData, storeFails) ==
    LET value == IF shouldStringifyData THEN Returned(safeJsonStringify(data))
                 ELSE IF data.kind = "string" THEN Returned(data)
                 ELSE IF data \notin {JNull, JUndefined} THEN ToStringOf(data)
                 ELSE Returned(JNull)
    IN  /\ store' = IF value.threw \/ value.value \in {JNull, JUndefined} THEN store
                    ELSE TrySetItem(key, value.value, storeFails)
        /\ last' = Outcome("Safe", "set", key, storeFails, IF value.threw THEN Thrown ELSE Returned(JUndefined))
        /\ UNCHANGED <<periodVars, utilVars>>
        /\ UNCHANGED <<initializedLS, initializedTyped, helperLS, helperTyped, factoryLog, flips>>

\* lines 217-224
safeLocalStorage_get(key, storeFails) ==
    /\ last' = Outcome("Safe", "get", key, storeFails,
                  IF storeFails THEN Returned(JNull) ELSE Returned(StoreGet(key)))
    /\ UNCHANGED <<periodVars, utilVars>>
    /\ UNCHANGED <<store, initializedLS, initializedTyped, helperLS, helperTyped, factoryLog, flips>>

\* lines 232-243
safeLocalStorage_getParsed(key, storeFails) ==
    /\ last' = Outcome("Safe", "getParsed", key, storeFails,
                  IF storeFails THEN Returned(JNull) ELSE Returned(safeJsonParse(StoreGet(key))))
    /\ UNCHANGED <<periodVars, utilVars>>
    /\ UNCHANGED <<store, initializedLS, initializedTyped, helperLS, helperTyped, factoryLog, flips>>

\* lines 249-254
safeLocalStorage_remove(key, storeFails) ==
    /\ store' = TryRemoveItem(key, storeFails)
    /\ last' = Outcome("Safe", "remove", key, storeFails, Returned(JUndefined))
    /\ UNCHANGED <<periodVars, utilVars>>
    /\ UNCHANGED <<initializedLS, initializedTyped, helperLS, helperTyped, factoryLog, flips>>

\* lines 118-124
safeLocalStorageEarly_set(key, data, shouldStringifyData, storeFails) ==
    /\ LET v == IF shouldStringifyData THEN JsonStringify(data) ELSE Returned(data)
       IN  store' = IF v.threw THEN store ELSE TrySetItem(key, v.value, storeFails)
    /\ last' = Outcome("SafeEarly", "set", key, storeFails, Returned(JUndefined))
    /\ UNCHANGED <<periodVars, utilVars>>
    /\ UNCHANGED <<initializedLS, initializedTyped, helperLS, helperTyped, factoryLog, flips>>

\* lines 131-138
safeLocalStorageEarly_get(key, storeFails) ==
    /\ last' = Outcome("SafeEarly", "get", key, storeFails,
                  IF storeFails THEN Returned(JNull) ELSE Returned(StoreGet(key)))
    /\ UNCHANGED <<periodVars, utilVars>>
    /\ UNCHANGED <<store, initializedLS, initializedTyped, helperLS, helperTyped, factoryLog, flips>>

\* lines 146-154
safeLocalStorageEarly_getParsed(key, storeFails) ==
    /\ last' = Outcome("SafeEarly", "getParsed", key, storeFails, ParsedInsideTry(key, storeFails))
    /\ UNCHANGED <<periodVars, utilVars>>
    /\ UNCHANGED <<store, initializedLS, initializedTyped, helperLS, helperTyped, factoryLog, flips>>

\* lines 160-165
safeLocalStorageEarly_remove(key, storeFails) ==
    /\ store' = TryRemoveItem(key, storeFails)
    /\ last' = Outcome("SafeEarly", "remove", key, storeFails, Returned(JUndefined))
    /\ UNCHANGED <<periodVars, utilVars>>
    /\ UNCHANGED <<initializedLS, initializedTyped, helperLS, helperTyped, factoryLog, flips>>

StorageNext ==
    \/ \E keys \in KeyLists : createLocalStorageHelper(keys)
    \/ \E keys \in KeyLists : createSafeTypedLocalStorage(keys)
    \/ \E key \in Keys, data \in DataValues, str \in BOOLEAN, f \in BOOLEAN :
          LocalStorageHelper_set(key, data, str, f)
    \/ \E key \in Keys, f \in BOOLEAN : LocalStorageHelper_get(key, f)
    \/ \E key \in Keys, f \in BOOLEAN : LocalStorageHelper_getParsed(key, f)
    \/ \E key \in Keys, f \in BOOLEAN : LocalStorageHelper_remove(key, f)
    \/ \E key \in Keys, data \in DataValues, str \in BOOLEAN, f \in BOOLEAN :
          SafeTyped_set(key, data, str, f)
    \/ \E key \in Keys, f \in BOOLEAN : SafeTyped_get(key, f)
    \/ \E key \in Keys, f \in BOOLEAN : SafeTyped_getParsed(key, f)
    \/ \E key \in Keys, f \in BOOLEAN : SafeTyped_remove(key, f)
    \/ \E h \in 1..MaxFactoryCalls, failAt \in 0..2 : SafeTyped_clearAll(h, failAt)
    \/ \E key \in Keys, data \in DataValues, str \in BOOLEAN, f \in BOOLEAN :
          safeLocalStorage_set(key, data, str, f)
    \/ \E key \in Keys, f \in BOOLEAN : safeLocalStorage_get(key, f)
    \/ \E key \in Keys, f \in BOOLEAN : safeLocalStorage_getParsed(key, f)
    \/ \E key \in Keys, f \in BOOLEAN : safeLocalStorage_remove(key, f)
    \/ \E key \in Keys, data \in DataValues, str \in BOOLEAN, f \in BOOLEAN :
          safeLocalStorageEarly_set(key, data, str, f)
    \/ \E key \in Keys, f \in BOOLEAN : safeLocalStorageEarly_get(key, f)
    \/ \E key \in Keys, f \in BOOLEAN : safeLocalStorageEarly_getParsed(key, f)
    \/ \E key \in Keys, f \in BOOLEAN : safeLocalStorageEarly_remove(key, f)

\* the strings set where the store is used as a map
StringData == {JStr("dark"), JStr("light"), JStr("")}

\* set of a string without stringification, get, remove and clearAll of every
\* helper, over a store that does not throw
StorageMapNext ==
    \/ \E keys \in KeyLists : createLocalStorageHelper(keys)
    \/ \E keys \in KeyLists : createSafeTypedLocalStorage(keys)
    \/ \E key \in Keys, data \in StringData : LocalStorageHelper_set(key, data, FALSE, FALSE)
    \/ \E key \in Keys : LocalStorageHelper_get(key, FALSE)
    \/ \E key \in Keys : LocalStorageHelper_remove(key, FALSE)
    \/ \E key \in Keys, data \in StringData : SafeTyped_set(key, data, FALSE, FALSE)
    \/ \E key \in Keys : SafeTyped_get(key, FALSE)
    \/ \E key \in Keys : SafeTyped_remove(key, FALSE)
    \/ \E h \in 1..MaxFactoryCalls : SafeTyped_clearAll(h, 0)
    \/ \E key \in Keys, data \in StringData : safeLocalStorage_set(key, data, FALSE, FALSE)
    \/ \E key \in Keys : safeLocalStorage_get(key, FALSE)
    \/ \E key \in Keys : safeLocalStorage_remove(key, FALSE)
    \/ \E key \in Keys, data \in StringData : safeLocalStorageEarly_set(key, data, FALSE, FALSE)
    \/ \E key \in Keys : safeLocalStorageEarly_get(key, FALSE)
    \/ \E key \in Keys : safeLocalStorageEarly_remove(key, FALSE)

(***************************************************************************)
(* JavaScript numbers that are not whole, and strings by their characters  *)
(***************************************************************************)
\* n + 0.5
Half(n) == [kind |-> "half", n |-> n]
\* 1e-7, a number below 1e-6
Tiny == [kind |-> "tiny", n |-> 0]
\* 1e21
Huge == [kind |-> "huge", n |-> 0]
\* Infinity (sign 1) and -Infinity (sign -1)
Infinity(sign) == [kind |-> "infinity", n |-> sign]
\* a string, as the sequence of its characters
Str(chars) == [kind |-> "string", chars |-> chars]

NumberKinds == {"number", "half", "tiny", "huge", "infinity", "NaN"}

TypeOf(v) ==
    CASE v.kind \in NumberKinds -> "number"
      [] v.kind = "string" -> "string"
      [] v.kind = "undefined" -> "undefined"
      [] OTHER -> "object"

DigitChars == <<"0", "1", "2", "3", "4", "5", "6", "7", "8", "9">>
Digits == {DigitChars[i] : i \in DOMAIN DigitChars}

RECURSIVE NatToString(_)
NatToString(n) ==
    IF n < Len(DigitChars) THEN <<DigitChars[n + 1]>>
    ELSE NatToString(n \div Len(DigitChars)) \o <<DigitChars[(n % Len(DigitChars)) + 1]>>

\* Number.prototype.toString and String.prototype.toString
toString(v) ==
    CASE v.kind = "string" -> v.chars
      [] v.kind = "number" ->
            IF v.n < 0 THEN <<"-">> \o NatToString(0 - v.n) ELSE NatToString(v.n)
      [] v.kind = "half" ->
            IF v.n >= 0 THEN NatToString(v.n) \o <<".", "5">>
            ELSE <<"-">> \o NatToString(0 - v.n - 1) \o <<".", "5">>
      [] v.kind = "tiny" -> <<"1", "e", "-", "7">>
      [] v.kind = "huge" -> <<"1", "e", "+", "2", "1">>
      [] v.kind = "infinity" ->
            IF v.n < 0 THEN <<"-", "I", "n", "f", "i", "n", "i", "t", "y">>
            ELSE <<"I", "n", "f", "i", "n", "i", "t", "y">>
      [] v.kind = "NaN" -> <<"N", "a", "N">>

(***************************************************************************)
(* numbers/BigNumber.ts: isNumeric                                         *)
(***************************************************************************)
\* \d*
IsDigits(s) == \A i \in 1..Len(s) : s[i] \in Digits

\* \d*\.?\d*
IsDecimal(s) ==
    \E i \in 0..Len(s) :
        /\ IsDigits(SubSeq(s, 1, i))
        /\ \/ IsDigits(SubSeq(s, i + 1, Len(s)))
           \/ /\ i < Len(s)
              /\ s[i + 1] = "."
              /\ IsDigits(SubSeq(s, i + 2, Len(s)))

\* -?
OptionalMinus(s) == IF Len(s) > 0 /\ s[1] = "-" THEN {s, Tail(s)} ELSE {s}

\* lines 82-88: whether the pattern of that name matches the whole of s
NUMERIC_REGEX(name, s) ==
    CASE name = "base" -> \E t \in OptionalMinus(s) : IsDecimal(t)
      [] name = "notNegative" -> IsDecimal(s)
      [] name = "integer" -> \E t \in OptionalMinus(s) : IsDigits(t)
      [] name = "integerNotNegative" -> IsDigits(s)

validTypes == {"number", "string"}

\* lines 153-177 without the test of line 160
isNumeric_noEdgeCases(value, options) ==
    IF TypeOf(value) \notin validTypes THEN FALSE
    ELSE LET str == toString(value)
         IN  IF str = <<>> THEN options.allowEmpty
             ELSE NUMERIC_REGEX(
                      IF options.isInteger /\ options.notNegative THEN "integerNotNegative"
                      ELSE IF options.isInteger THEN "integer"
                      ELSE IF options.notNegative THEN "notNegative"
                      ELSE "base", str)

\* lines 153-177 without the test of line 166
isNumeric_noEmptyTest(value, options) ==
    IF TypeOf(value) \notin validTypes THEN FALSE
    ELSE LET str == toString(value)
         IN  IF str = <<"-", ".">> \/ str = <<".">> THEN FALSE
             ELSE NUMERIC_REGEX(
                      IF options.isInteger /\ options.notNegative THEN "integerNotNegative"
                      ELSE IF options.isInteger THEN "integer"
                      ELSE IF options.notNegative THEN "notNegative"
                      ELSE "base", str)

\* lines 153-177
isNumeric(value, options) ==
    IF TypeOf(value) \notin validTypes THEN FALSE
    ELSE LET str == toString(value)
         IN  IF str = <<"-", ".">> \/ str = <<".">> THEN FALSE
             ELSE IF str = <<>> THEN options.allowEmpty
             ELSE NUMERIC_REGEX(
                      IF options.isInteger /\ options.notNegative THEN "integerNotNegative"
                      ELSE IF options.isInteger THEN "integer"
                      ELSE IF options.notNegative THEN "notNegative"
                      ELSE "base", str)

\* the options of a call: an option left out reads as undefined, which the
\* tests treat as false
IsNumericOptions == [notNegative : BOOLEAN, isInteger : BOOLEAN, allowEmpty : BOOLEAN]
NoOptions == [notNegative |-> FALSE, isInteger |-> FALSE, allowEmpty |-> FALSE]

MaxStrLen == 3
StringChars == {"-", ".", "0", "5", "e"}
Strings == UNION {[1..n -> StringChars] : n \in 0..MaxStrLen}

\* the values isNumeric is called with
NumericInputs ==
    {Str(s) : s \in Strings}
        \cup {Num(n) : n \in (0 - 2)..12} \cup {Half(n) : n \in (0 - 2)..1}
        \cup {Tiny, Huge, NaN, Infinity(1), Infinity(0 - 1), Undefined, Null}

NumericInit ==
    /\ numValue \in NumericInputs
    /\ numOptions \in IsNumericOptions
    /\ numRet = <<>>
    /\ clock = 1000 * SecondsPerDay
    /\ tz = [before |-> 0, after |-> 0, at |-> 0]
    /\ pc = "idle"
    /\ fixedPeriod = NoValue
    /\ now = NoValue
    /\ result = NoResult
    /\ dayRead = NoValue
    /\ todayNow = NoValue
    /\ ret = NoRet
    /\ store = [k \in Keys |-> JNull]
    /\ initializedLS = FALSE
    /\ initializedTyped = FALSE
    /\ helperLS = <<>>
    /\ helperTyped = <<>>
    /\ factoryLog = [LS |-> <<>>, Typed |-> <<>>]
    /\ flips = [LS |-> 0, Typed |-> 0]
    /\ last = NoOp
    /\ rArgs = <<Undefined, Undefined>>
    /\ safeMin = 0
    /\ safeMax = 0
    /\ range = 0
    /\ limit = 0
    /\ array0 = 0
    /\ rpc = "idle"
    /\ rRet = NoValue
    /\ caller = "none"
    /\ countArg = Undefined
    /\ count = NoValue
    /\ used = {}
    /\ picked = <<>>
    /\ ppc = "idle"
    /\ queryObj = Undefined
    /\ queryRet = <<>>
    /\ hexArg = [kind |-> "undefined", n |-> 0]
    /\ alphaArg = [kind |-> "undefined", n |-> 0]
    /\ hexRet = <<>>
    /\ daySource = [kind |-> "undefined", n |-> 0]
    /\ dayOffset = 0
    /\ dayRet = <<>>
    /\ fbUserId = [kind |-> "undefined", n |-> 0]
    /\ mobile = FALSE
    /\ fbPc = "idle"
    /\ elapsed = 0
    /\ appOpened = FALSE
    /\ href = <<>>
    /\ tabs = <<>>
    /\ jsonValue = [kind |-> "undefined", n |-> 0]
    /\ jsonText = <<>>
    /\ jsonBack = <<>>

\* the call isNumeric(numValue, numOptions)
isNumeric_call ==
    /\ numRet = <<>>
    /\ numRet' = <<isNumeric(numValue, numOptions)>>
    /\ UNCHANGED <<periodVars, storageVars, randomVars, queryVars, moreVars>>
    /\ UNCHANGED <<numValue, numOptions>>

NumericNext == isNumeric_call

(***************************************************************************)
(* env/constants.ts: getCryptoRandomInt                                    *)
(*                                                                         *)
(* The program's Uint32Array word has 32 bits and its safe integers 53;    *)
(* 2^32 is beyond TLC's integers, so the word has UintBits bits here and   *)
(* the safe integers 21 bits more than the word, as in the program.        *)
(***************************************************************************)
UintBits == 4
\* 2 ** 32, the number of words crypto.getRandomValues can write
TwoToTheWord == 2^UintBits
\* 0xffffffff
maxUint32 == TwoToTheWord - 1
MAX_SAFE_INTEGER == 2^(UintBits + 21) - 1
MIN_SAFE_INTEGER == 0 - MAX_SAFE_INTEGER

MathMin(a, b) == IF a < b THEN a ELSE b
MathMax(a, b) == IF a > b THEN a ELSE b

\* typeof v === "number" && Number.isFinite(v)
IsFiniteNumber(v) == v.kind \in {"number", "half", "tiny", "huge"}

\* Math.round of a finite number (halves go up)
MathRound(v) ==
    CASE v.kind = "number" -> v.n
      [] v.kind = "half" -> v.n + 1
      [] v.kind = "tiny" -> 0

\* Math.floor of a finite number
MathFloor(v) ==
    CASE v.kind = "number" -> v.n
      [] v.kind = "half" -> v.n
      [] v.kind = "tiny" -> 0

\* lines 62-84 without the swap of lines 70-72
Sanitize_noSwap(min, max) ==
    LET roundedMin == IF IsFiniteNumber(min) THEN MathRound(min) ELSE 0
        roundedMax == IF IsFiniteNumber(max) THEN MathRound(max) ELSE 1
        clampedMin == MathMax(MIN_SAFE_INTEGER, MathMin(MAX_SAFE_INTEGER, roundedMin))
        clampedMax == MathMax(MIN_SAFE_INTEGER, MathMin(MAX_SAFE_INTEGER, roundedMax))
        wide == clampedMax - clampedMin + 1
        fallback == wide <= 0 \/ wide > TwoToTheWord
        r == IF fallback THEN 2 ELSE wide
    IN  [safeMin |-> IF fallback THEN 0 ELSE clampedMin,
         safeMax |-> IF fallback THEN 1 ELSE clampedMax,
         range |-> r,
         limit |-> maxUint32 - (maxUint32 % r)]

\* lines 62-84: safeMin, safeMax, range and limit when the loop is entered
Sanitize(min, max) ==
    LET roundedMin == IF IsFiniteNumber(min) THEN MathRound(min) ELSE 0
        roundedMax == IF IsFiniteNumber(max) THEN MathRound(max) ELSE 1
        clampedMin == MathMax(MIN_SAFE_INTEGER, MathMin(MAX_SAFE_INTEGER, roundedMin))
        clampedMax == MathMax(MIN_SAFE_INTEGER, MathMin(MAX_SAFE_INTEGER, roundedMax))
        swappedMin == IF clampedMin > clampedMax THEN clampedMax ELSE clampedMin
        swappedMax == IF clampedMin > clampedMax THEN clampedMin ELSE clampedMax
        wide == swappedMax - swappedMin + 1
        fallback == wide <= 0 \/ wide > TwoToTheWord
        r == IF fallback THEN 2 ELSE wide
    IN  [safeMin |-> IF fallback THEN 0 ELSE swappedMin,
         safeMax |-> IF fallback THEN 1 ELSE swappedMax,
         range |-> r,
         limit |-> maxUint32 - (maxUint32 % r)]

\* the arguments of a call: missing, null, not finite, whole, fractional,
\* beyond the safe integers
RandomArgs ==
    {Undefined, Null, NaN, Infinity(1), Infinity(0 - 1), Tiny, Half(2), Half(0 - 3)}
        \cup {Num(n) : n \in {0 - 3, 0, 1, 2, 5, maxUint32 - 1, maxUint32, TwoToTheWord,
                              MAX_SAFE_INTEGER + 2, MIN_SAFE_INTEGER - 2}}

\* lines 59-85: the call, up to the loop; `array` is new and holds 0
EnterRandomInt(min, max, who) ==
    /\ rpc = "idle"
    /\ rArgs' = <<min, max>>
    /\ safeMin' = Sanitize(min, max).safeMin
    /\ safeMax' = Sanitize(min, max).safeMax
    /\ range' = Sanitize(min, max).range
    /\ limit' = Sanitize(min, max).limit
    /\ array0' = 0
    /\ rRet' = NoValue
    /\ caller' = who
    /\ rpc' = "loop"

\* a call of getCryptoRandomInt(min, max) from outside the library
getCryptoRandomInt(min, max) ==
    /\ ppc = "idle"
    /\ EnterRandomInt(min, max, "top")
    /\ UNCHANGED <<periodVars, storageVars, numericVars, queryVars, moreVars>>
    /\ UNCHANGED <<countArg, count, used, picked, ppc>>

\* lines 87-93: one turn of the loop, in which crypto.getRandomValues writes
\* `word`
getRandomValues(word) ==
    /\ rpc = "loop"
    /\ array0' = word
    /\ IF word < limit
       THEN /\ rRet' = Num(safeMin + (word % range))
            /\ rpc' = "done"
       ELSE UNCHANGED <<rRet, rpc>>
    /\ UNCHANGED <<periodVars, storageVars, numericVars, queryVars, moreVars>>
    /\ UNCHANGED <<rArgs, safeMin, safeMax, range, limit, caller>>
    /\ UNCHANGED <<countArg, count, used, picked, ppc>>

\* the caller outside the library has the integer and may call again
RandomNextCall ==
    /\ rpc = "done"
    /\ caller = "top"
    /\ rpc' = "idle"
    /\ rArgs' = <<Undefined, Undefined>>
    /\ safeMin' = 0
    /\ safeMax' = 0
    /\ range' = 0
    /\ limit' = 0
    /\ array0' = 0
    /\ rRet' = NoValue
    /\ caller' = "none"
    /\ UNCHANGED <<periodVars, storageVars, numericVars, queryVars, moreVars>>
    /\ UNCHANGED <<countArg, count, used, picked, ppc>>

(***************************************************************************)
(* colors/pastelColors.ts: getRandomPastelColors                           *)
(***************************************************************************)
PaletteSize == 4
\* lines 4-65: the palette, of which the first PaletteSize colors are kept
pastelColors ==
    SubSeq(<<"#ff0000", "#dc143c", "#ff4500", "#ff6347", "#ff8c00", "#ffa500",
             "#ffbb28", "#ffd700">>, 1, PaletteSize)
\* line 68
pastelColorsLength == Len(pastelColors)

\* the arguments of a call
CountInputs ==
    {Undefined, Null, NaN, Infinity(1), Tiny, Huge, Half(0), Half(2), Half(0 - 1)}
        \cup {Num(n) : n \in (0 - 1)..(pastelColorsLength + 2)}

\* lines 102-111
getRandomPastelColors(c) ==
    /\ ppc = "idle"
    /\ rpc = "idle"
    /\ countArg' = c
    /\ count' = IF ~isNumeric(c, NoOptions) THEN Num(pastelColorsLength)
                ELSE Num(MathMin(MathMax(MathFloor(c), 1), pastelColorsLength))
    /\ used' = {}
    /\ picked' = <<>>
    /\ ppc' = "loop"
    /\ UNCHANGED <<periodVars, storageVars, numericVars, queryVars, moreVars>>
    /\ UNCHANGED <<rArgs, safeMin, safeMax, range, limit, array0, rpc, rRet, caller>>

\* lines 113-114: result.length < count, and the call of getCryptoRandomInt
PastelDraw ==
    /\ ppc = "loop"
    /\ Len(picked) < count.n
    /\ EnterRandomInt(Num(0), Num(pastelColorsLength - 1), "pastel")
    /\ ppc' = "index"
    /\ UNCHANGED <<periodVars, storageVars, numericVars, queryVars, moreVars>>
    /\ UNCHANGED <<countArg, count, used, picked>>

\* lines 114-119 without the test of line 115
PastelPush_noUsedTest ==
    /\ ppc = "index"
    /\ rpc = "done"
    /\ used' = used \cup {rRet.n}
    /\ picked' = Append(picked, pastelColors[rRet.n + 1])
    /\ ppc' = "loop"
    /\ rpc' = "idle"
    /\ rRet' = NoValue
    /\ caller' = "none"
    /\ UNCHANGED <<periodVars, storageVars, numericVars, queryVars, moreVars>>
    /\ UNCHANGED <<rArgs, safeMin, safeMax, range, limit, array0>>
    /\ UNCHANGED <<countArg, count>>

\* lines 114-119: getCryptoRandomInt has returned `index`
PastelPush ==
    /\ ppc = "index"
    /\ rpc = "done"
    /\ IF rRet.n \notin used
       THEN /\ used' = used \cup {rRet.n}
            /\ picked' = Append(picked, pastelColors[rRet.n + 1])
       ELSE UNCHANGED <<used, picked>>
    /\ ppc' = "loop"
    /\ rpc' = "idle"
    /\ rRet' = NoValue
    /\ caller' = "none"
    /\ UNCHANGED <<periodVars, storageVars, numericVars, queryVars, moreVars>>
    /\ UNCHANGED <<rArgs, safeMin, safeMax, range, limit, array0>>
    /\ UNCHANGED <<countArg, count>>

\* lines 113 and 120: the loop ends and `result` is returned
PastelReturn ==
    /\ ppc = "loop"
    /\ ~(Len(picked) < count.n)
    /\ ppc' = "done"
    /\ UNCHANGED <<periodVars, storageVars, numericVars, queryVars, moreVars>>
    /\ UNCHANGED <<rArgs, safeMin, safeMax, range, limit, array0, rpc, rRet, caller>>
    /\ UNCHANGED <<countArg, count, used, picked>>

\* the caller has the colors and may call again
PastelNextCall ==
    /\ ppc = "done"
    /\ ppc' = "idle"
    /\ countArg' = Undefined
    /\ count' = NoValue
    /\ used' = {}
    /\ picked' = <<>>
    /\ rArgs' = <<Undefined, Undefined>>
    /\ safeMin' = 0
    /\ safeMax' = 0
    /\ range' = 0
    /\ limit' = 0
    /\ array0' = 0
    /\ UNCHANGED <<periodVars, storageVars, numericVars, queryVars, moreVars>>
    /\ UNCHANGED <<rpc, rRet, caller>>

RandomInit ==
    /\ rArgs = <<Undefined, Undefined>>
    /\ safeMin = 0
    /\ safeMax = 0
    /\ range = 0
    /\ limit = 0
    /\ array0 = 0
    /\ rpc = "idle"
    /\ rRet = NoValue
    /\ caller = "none"
    /\ countArg = Undefined
    /\ count = NoValue
    /\ used = {}
    /\ picked = <<>>
    /\ ppc = "idle"
    /\ clock = 1000 * SecondsPerDay
    /\ tz = [before |-> 0, after |-> 0, at |-> 0]
    /\ pc = "idle"
    /\ fixedPeriod = NoValue
    /\ now = NoValue
    /\ result = NoResult
    /\ dayRead = NoValue
    /\ todayNow = NoValue
    /\ ret = NoRet
    /\ store = [k \in Keys |-> JNull]
    /\ initializedLS = FALSE
    /\ initializedTyped = FALSE
    /\ helperLS = <<>>
    /\ helperTyped = <<>>
    /\ factoryLog = [LS |-> <<>>, Typed |-> <<>>]
    /\ flips = [LS |-> 0, Typed |-> 0]
    /\ last = NoOp
    /\ numValue = Undefined
    /\ numOptions = NoOptions
    /\ numRet = <<>>
    /\ queryObj = Undefined
    /\ queryRet = <<>>
    /\ hexArg = [kind |-> "undefined", n |-> 0]
    /\ alphaArg = [kind |-> "undefined", n |-> 0]
    /\ hexRet = <<>>
    /\ daySource = [kind |-> "undefined", n |-> 0]
    /\ dayOffset = 0
    /\ dayRet = <<>>
    /\ fbUserId = [kind |-> "undefined", n |-> 0]
    /\ mobile = FALSE
    /\ fbPc = "idle"
    /\ elapsed = 0
    /\ appOpened = FALSE
    /\ href = <<>>
    /\ tabs = <<>>
    /\ jsonValue = [kind |-> "undefined", n |-> 0]
    /\ jsonText = <<>>
    /\ jsonBack = <<>>

RandomNext ==
    \/ \E min \in RandomArgs, max \in RandomArgs : getCryptoRandomInt(min, max)
    \/ \E word \in 0..maxUint32 : getRandomValues(word)
    \/ RandomNextCall
    \/ \E c \in CountInputs : getRandomPastelColors(c)
    \/ PastelDraw
    \/ PastelPush
    \/ PastelReturn
    \/ PastelNextCall

(***************************************************************************)
(* document/document.ts: urlQueryStringFromObject                          *)
(* Strings are sequences of characters (see Str); an array is the sequence *)
(* of its elements and an object the sequence of its <<key, value>>        *)
(* entries, in enumeration order.                                          *)
(***************************************************************************)
Bool(b) == [kind |-> "boolean", b |-> b]
Function == [kind |-> "function", n |-> 0]
Symbol == [kind |-> "symbol", n |-> 0]
\* a Date; an invalid one holds NaN as its time
DateValue(valid) == [kind |-> "date", valid |-> valid]
\* an object that is not plain, such as an instance of a class
Instance == [kind |-> "instance", n |-> 0]
Arr(items) == [kind |-> "array", items |-> items]
Obj(entries) == [kind |-> "object", entries |-> entries]

\* isPlainObject, unnamed/part_008 lines 14-21
isPlainObject(value) == value.kind = "object"

\* String(value) of a value that reaches line 109
StringOf(value) ==
    CASE value.kind = "boolean" ->
            IF value.b THEN <<"t", "r", "u", "e">> ELSE <<"f", "a", "l", "s", "e">>
      [] value.kind = "instance" ->
            <<"[", "o", "b", "j", "e", "c", "t", " ", "O", "b", "j", "e", "c", "t", "]">>
      [] OTHER -> toString(value)

\* Date.prototype.toISOString of a valid Date
toISOString ==
    <<"2", "0", "2", "5", "-", "1", "0", "-", "1", "7", "T", "1", "2", ":", "3", "0",
      ":", "3", "4", ".", "0", "8", "1", "Z">>

\* the characters encodeURIComponent leaves as they are
UriUnreserved ==
    Digits \cup {"a", "b", "c", "d", "e", "f", "g", "h", "i", "j", "k", "l", "m", "n",
                 "o", "p", "q", "r", "s", "t", "u", "v", "w", "x", "y", "z",
                 "A", "B", "C", "D", "E", "F", "G", "H", "I", "J", "K", "L", "M", "N",
                 "O", "P", "Q", "R", "S", "T", "U", "V", "W", "X", "Y", "Z",
                 "-", "_", ".", "!", "~", "*", "'", "(", ")"}

\* the escapes of the other characters of the model
PercentEscape(c) ==
    CASE c = " " -> <<"%", "2", "0">>
      [] c = "&" -> <<"%", "2", "6">>
      [] c = "+" -> <<"%", "2", "B">>
      [] c = ":" -> <<"%", "3", "A">>
      [] c = "=" -> <<"%", "3", "D">>
      [] c = "[" -> <<"%", "5", "B">>
      [] c = "]" -> <<"%", "5", "D">>

RECURSIVE encodeURIComponent(_)
encodeURIComponent(str) ==
    IF str = <<>> THEN <<>>
    ELSE (IF Head(str) \in UriUnreserved THEN <<Head(str)>> ELSE PercentEscape(Head(str)))
             \o encodeURIComponent(Tail(str))

\* `parts` during a call, and whether an exception has ended the call
Parts(list) == [threw |-> FALSE, parts |-> list]
Raised(acc) == [threw |-> TRUE, parts |-> acc.parts]

\* line 87 with the element passed on under the array's own key
ElementPrefix_bare(keyPrefix) == keyPrefix

\* lines 84 and 88: the key under which an element of an array is passed on
ElementPrefix(keyPrefix) == keyPrefix \o <<"[", "]">>

RECURSIVE buildQuery(_, _, _)
RECURSIVE arrayForEach(_, _, _, _)
RECURSIVE entriesForEach(_, _, _, _)

\* lines 72-110 without the test of line 77
buildQuery_nonFiniteAsText(acc, keyPrefix, value) ==
    IF acc.threw THEN acc
    ELSE CASE value.kind \in {"null", "undefined"} -> acc
           [] value.kind \in {"function", "symbol"} -> acc
           [] value.kind = "array" -> arrayForEach(acc, keyPrefix, value.items, 1)
           [] value.kind = "date" ->
                 IF value.valid
                 THEN Parts(Append(acc.parts, keyPrefix \o <<"=">> \o encodeURIComponent(toISOString)))
                 ELSE Raised(acc)
           [] isPlainObject(value) -> entriesForEach(acc, keyPrefix, value.entries, 1)
           [] OTHER ->
                 Parts(Append(acc.parts, keyPrefix \o <<"=">> \o encodeURIComponent(StringOf(value))))

\* lines 72-110: `parts` after buildQuery(parts, keyPrefix, value)
buildQuery(acc, keyPrefix, value) ==
    IF acc.threw THEN acc
    ELSE CASE value.kind \in {"null", "undefined"} -> acc
           [] value.kind \in {"function", "symbol"} -> acc
           [] value.kind \in {"NaN", "infinity"} -> acc
           [] value.kind = "array" -> arrayForEach(acc, keyPrefix, value.items, 1)
           [] value.kind = "date" ->
                 IF value.valid
                 THEN Parts(Append(acc.parts, keyPrefix \o <<"=">> \o encodeURIComponent(toISOString)))
                 ELSE Raised(acc)
           [] isPlainObject(value) -> entriesForEach(acc, keyPrefix, value.entries, 1)
           [] OTHER ->
                 Parts(Append(acc.parts, keyPrefix \o <<"=">> \o encodeURIComponent(StringOf(value))))

\* lines 81-90 with the arrays held by an element that is an object left out
arrayForEach_oneLevel(acc, keyPrefix, items, i) ==
    IF acc.threw \/ i > Len(items) THEN acc
    ELSE arrayForEach(
             IF isPlainObject(items[i])
             THEN entriesForEach(acc, ElementPrefix(keyPrefix),
                      SelectSeq(items[i].entries, LAMBDA e : e[2].kind # "array"), 1)
             ELSE buildQuery(acc, ElementPrefix(keyPrefix), items[i]),
             keyPrefix, items, i + 1)

\* lines 81-90: value.forEach from the i-th element on
arrayForEach(acc, keyPrefix, items, i) ==
    IF acc.threw \/ i > Len(items) THEN acc
    ELSE arrayForEach(
             IF isPlainObject(items[i])
             THEN entriesForEach(acc, ElementPrefix(keyPrefix), items[i].entries, 1)
             ELSE buildQuery(acc, ElementPrefix(keyPrefix), items[i]),
             keyPrefix, items, i + 1)

\* lines 83-85 and 102-104: Object.entries(value).forEach from the i-th
\* entry on; each entry goes to buildQuery under keyPrefix[key]
entriesForEach(acc, keyPrefix, entries, i) ==
    IF acc.threw \/ i > Len(entries) THEN acc
    ELSE entriesForEach(
             buildQuery(acc, keyPrefix \o <<"[">> \o entries[i][1] \o <<"]">>, entries[i][2]),
             keyPrefix, entries, i + 1)

\* line 122: Object.entries(obj).forEach from the i-th entry on
RECURSIVE topEntriesForEach(_, _, _)
topEntriesForEach(acc, entries, i) ==
    IF acc.threw \/ i > Len(entries) THEN acc
    ELSE topEntriesForEach(buildQuery(acc, entries[i][1], entries[i][2]), entries, i + 1)

\* parts.join("&")
RECURSIVE Join(_, _)
Join(list, sep) ==
    IF list = <<>> THEN <<>>
    ELSE IF Len(list) = 1 THEN list[1]
    ELSE list[1] \o sep \o Join(Tail(list), sep)

QReturned(str) == [threw |-> FALSE, value |-> str]
QThrown == [threw |-> TRUE, value |-> <<>>]

\* lines 114-125 with line 124 as `return "?" + parts.join("&")`
urlQueryStringFromObject_alwaysMark(obj) ==
    IF ~isPlainObject(obj) \/ Len(obj.entries) = 0 THEN QReturned(<<>>)
    ELSE LET acc == topEntriesForEach(Parts(<<>>), obj.entries, 1)
         IN  IF acc.threw THEN QThrown
             ELSE QReturned(<<"?">> \o Join(acc.parts, <<"&">>))

\* lines 114-125
urlQueryStringFromObject(obj) ==
    IF ~isPlainObject(obj) \/ Len(obj.entries) = 0 THEN QReturned(<<>>)
    ELSE LET acc == topEntriesForEach(Parts(<<>>), obj.entries, 1)
         IN  IF acc.threw THEN QThrown
             ELSE IF Len(acc.parts) > 0 THEN QReturned(<<"?">> \o Join(acc.parts, <<"&">>))
             ELSE QReturned(<<>>)

\* the longest array of leaves
MaxItems == 2

\* values without parts of their own
QueryLeaves ==
    {Null, Undefined, Function, Symbol, NaN, Infinity(1), Infinity(0 - 1),
     Num(1), Num(0 - 2), Half(2), Bool(TRUE), Bool(FALSE),
     Str(<<"a">>), Str(<<"b">>), Str(<<"a", " ", "&">>), Str(<<>>),
     DateValue(TRUE), DateValue(FALSE), Instance}
\* the leaves that are put inside arrays and objects
InnerLeaves ==
    {Null, Undefined, NaN, Infinity(1), Function, Num(1), Str(<<"a">>), Str(<<"b">>),
     Str(<<"a", " ", "&">>)}
\* arrays of leaves
LeafArrays == {Arr(items) : items \in UNION {[1..n -> InnerLeaves] : n \in 0..MaxItems}}
\* objects as they occur inside arrays and objects
InnerObjects ==
    {Obj(<<>>), Obj(<<<<<<"x">>, Num(1)>>, <<<<"y">>, Null>>>>),
     Obj(<<<<<<"y">>, Str(<<"b">>)>>, <<<<"x">>, Obj(<<<<<<"y">>, Num(1)>>>>)>>>>)}
        \cup {Obj(<<<<<<"x">>, v>>>>) :
                 v \in InnerLeaves \cup {Arr(<<Num(1)>>), Arr(<<Null, Str(<<"a">>)>>),
                                         Arr(<<Arr(<<Num(1)>>)>>), DateValue(FALSE)}}
\* arrays that hold objects or arrays
DeepArrays ==
    {Arr(<<o>>) : o \in InnerObjects}
        \cup {Arr(<<Num(1), o>>) : o \in InnerObjects}
        \cup {Arr(<<Arr(<<Num(1), Null>>), Str(<<"a">>)>>), Arr(<<Instance, Function>>)}
\* the values of the properties of `obj`
PropertyValues == QueryLeaves \cup LeafArrays \cup InnerObjects \cup DeepArrays

\* the values of a second property
SecondValues ==
    QueryLeaves \cup InnerObjects
        \cup {Arr(<<Str(<<"a">>), Str(<<"b">>)>>), Arr(<<NaN>>), Arr(<<>>),
              Arr(<<Obj(<<<<<<"x">>, Arr(<<Num(1)>>)>>>>)>>)}

\* the arguments of a call
QueryInputs ==
    QueryLeaves \cup LeafArrays
        \cup {Obj(<<>>)}
        \cup {Obj(<<<<<<"p", "a", "g", "e">>, v>>>>) : v \in PropertyValues}
        \cup {Obj(<<<<<<"p", "a", "g", "e">>, v>>, <<<<"t", "a", "g", "s">>, w>>>>) :
                 v \in PropertyValues, w \in SecondValues}
        \cup {Obj(<<<<<<"t", "a", "g", "s">>, v>>, <<<<"p", "a", "g", "e">>, Num(1)>>>>) :
                 v \in PropertyValues}

QueryInit ==
    /\ queryObj \in QueryInputs
    /\ queryRet = <<>>
    /\ clock = 1000 * SecondsPerDay
    /\ tz = [before |-> 0, after |-> 0, at |-> 0]
    /\ pc = "idle"
    /\ fixedPeriod = NoValue
    /\ now = NoValue
    /\ result = NoResult
    /\ dayRead = NoValue
    /\ todayNow = NoValue
    /\ ret = NoRet
    /\ store = [k \in Keys |-> JNull]
    /\ initializedLS = FALSE
    /\ initializedTyped = FALSE
    /\ helperLS = <<>>
    /\ helperTyped = <<>>
    /\ factoryLog = [LS |-> <<>>, Typed |-> <<>>]
    /\ flips = [LS |-> 0, Typed |-> 0]
    /\ last = NoOp
    /\ rArgs = <<Undefined, Undefined>>
    /\ safeMin = 0
    /\ safeMax = 0
    /\ range = 0
    /\ limit = 0
    /\ array0 = 0
    /\ rpc = "idle"
    /\ rRet = NoValue
    /\ caller = "none"
    /\ countArg = Undefined
    /\ count = NoValue
    /\ used = {}
    /\ picked = <<>>
    /\ ppc = "idle"
    /\ numValue = Undefined
    /\ numOptions = NoOptions
    /\ numRet = <<>>
    /\ hexArg = [kind |-> "undefined", n |-> 0]
    /\ alphaArg = [kind |-> "undefined", n |-> 0]
    /\ hexRet = <<>>
    /\ daySource = [kind |-> "undefined", n |-> 0]
    /\ dayOffset = 0
    /\ dayRet = <<>>
    /\ fbUserId = [kind |-> "undefined", n |-> 0]
    /\ mobile = FALSE
    /\ fbPc = "idle"
    /\ elapsed = 0
    /\ appOpened = FALSE
    /\ href = <<>>
    /\ tabs = <<>>
    /\ jsonValue = [kind |-> "undefined", n |-> 0]
    /\ jsonText = <<>>
    /\ jsonBack = <<>>

\* the call urlQueryStringFromObject(queryObj)
urlQueryStringFromObject_call ==
    /\ queryRet = <<>>
    /\ queryRet' = <<urlQueryStringFromObject(queryObj)>>
    /\ UNCHANGED <<periodVars, storageVars, randomVars, numericVars, moreVars>>
    /\ UNCHANGED queryObj

QueryNext == urlQueryStringFromObject_call

(***************************************************************************)
(* hexToRgba (unnamed/part_006)                                            *)
(***************************************************************************)
\* the characters [a-f\d] matches under the flag i, each with its value in
\* base 16
HexDigitValue ==
    [c \in {"0", "1", "2", "3", "4", "5", "6", "7", "8", "9",
            "a", "b", "c", "d", "e", "f", "A", "B", "C", "D", "E", "F"} |->
        CASE c = "0" -> 0 [] c = "1" -> 1 [] c = "2" -> 2 [] c = "3" -> 3
          [] c = "4" -> 4 [] c = "5" -> 5 [] c = "6" -> 6 [] c = "7" -> 7
          [] c = "8" -> 8 [] c = "9" -> 9
          [] c \in {"a", "A"} -> 10 [] c \in {"b", "B"} -> 11
          [] c \in {"c", "C"} -> 12 [] c \in {"d", "D"} -> 13
          [] c \in {"e", "E"} -> 14 [] c \in {"f", "F"} -> 15]

IsHexDigits(s) == \A i \in 1..Len(s) : s[i] \in DOMAIN HexDigitValue

\* _hexRegex with "#" required
hexRegex_exec_hashRequired(s) ==
    IF Len(s) = 7 /\ s[1] = "#" /\ IsHexDigits(Tail(s))
    THEN <<SubSeq(s, 2, 3), SubSeq(s, 4, 5), SubSeq(s, 6, 7)>>
    ELSE <<>>

\* _hexRegex.exec(s): <<>> for null, else the three captured groups.
\* /^#?([a-f\d]{2})([a-f\d]{2})([a-f\d]{2})$/i
hexRegex_exec(s) ==
    LET body == IF Len(s) > 0 /\ s[1] = "#" THEN Tail(s) ELSE s
    IN  IF Len(body) = 6 /\ IsHexDigits(body)
        THEN <<SubSeq(body, 1, 2), SubSeq(body, 3, 4), SubSeq(body, 5, 6)>>
        ELSE <<>>

\* parseInt(s, 16) of a string of hexadecimal digits
RECURSIVE parseIntHex(_)
parseIntHex(s) ==
    IF s = <<>> THEN 0
    ELSE 16 * parseIntHex(SubSeq(s, 1, Len(s) - 1)) + HexDigitValue[s[Len(s)]]

\* alpha < 0 || alpha > 1, of a number; every comparison with NaN is false
AlphaOutOfRange(alpha) ==
    CASE alpha.kind = "number" -> alpha.n < 0 \/ alpha.n > 1
      [] alpha.kind = "half" -> alpha.n # 0
      [] alpha.kind = "infinity" -> TRUE
      [] OTHER -> FALSE

\* lines 11-23, `match` being the code's `result`; an argument `alpha` of
\* undefined takes the default 1
hexToRgba(hex, alphaGiven) ==
    LET match == hexRegex_exec(hex.chars)
        alpha0 == IF alphaGiven = Undefined THEN Num(1) ELSE alphaGiven
        alpha == IF AlphaOutOfRange(alpha0) THEN Num(1) ELSE alpha0
    IN  IF match = <<>> THEN Null
        ELSE Str(<<"r", "g", "b", "a", "(">>
                 \o NatToString(parseIntHex(match[1])) \o <<",", " ">>
                 \o NatToString(parseIntHex(match[2])) \o <<",", " ">>
                 \o NatToString(parseIntHex(match[3])) \o <<",", " ">>
                 \o toString(alpha) \o <<")">>)

\* the inputs tried: up to two "#", then three pairs of characters, then
\* nothing or one character more, or one character fewer
HexPairs ==
    { <<"0", "0">>, <<"f", "f">>, <<"F", "f">>, <<"a", "9">>, <<"1", "g">>, <<"#", "0">> }
HexBodies ==
    LET six == {p \o q \o r : <<p, q, r>> \in HexPairs \X HexPairs \X HexPairs}
    IN  six \cup {SubSeq(b, 1, 5) : b \in six} \cup {b \o <<"0">> : b \in six} \cup {<<>>}
HexInputs == {Str(h \o b) : <<h, b>> \in {<<>>, <<"#">>, <<"#", "#">>} \X HexBodies}
AlphaInputs == {Undefined, Num(0), Num(1), Half(0), Num(2), Num(-1), NaN}

HexInit ==
    /\ hexArg \in HexInputs
    /\ alphaArg \in AlphaInputs
    /\ hexRet = <<>>
    /\ clock = 1000 * SecondsPerDay
    /\ tz = [before |-> 0, after |-> 0, at |-> 0]
    /\ pc = "idle"
    /\ fixedPeriod = NoValue
    /\ now = NoValue
    /\ result = NoResult
    /\ dayRead = NoValue
    /\ todayNow = NoValue
    /\ ret = NoRet
    /\ store = [k \in Keys |-> JNull]
    /\ initializedLS = FALSE
    /\ initializedTyped = FALSE
    /\ helperLS = <<>>
    /\ helperTyped = <<>>
    /\ factoryLog = [LS |-> <<>>, Typed |-> <<>>]
    /\ flips = [LS |-> 0, Typed |-> 0]
    /\ last = NoOp
    /\ rArgs = <<Undefined, Undefined>>
    /\ safeMin = 0
    /\ safeMax = 0
    /\ range = 0
    /\ limit = 0
    /\ array0 = 0
    /\ rpc = "idle"
    /\ rRet = NoValue
    /\ caller = "none"
    /\ countArg = Undefined
    /\ count = NoValue
    /\ used = {}
    /\ picked = <<>>
    /\ ppc = "idle"
    /\ numValue = Undefined
    /\ numOptions = NoOptions
    /\ numRet = <<>>
    /\ queryObj = Undefined
    /\ queryRet = <<>>
    /\ daySource = Undefined
    /\ dayOffset = 0
    /\ dayRet = <<>>
    /\ fbUserId = Undefined
    /\ mobile = FALSE
    /\ fbPc = "idle"
    /\ elapsed = 0
    /\ appOpened = FALSE
    /\ href = <<>>
    /\ tabs = <<>>
    /\ jsonValue = Undefined
    /\ jsonText = <<>>
    /\ jsonBack = <<>>

\* the call hexToRgba(hexArg, alphaArg)
hexToRgba_call ==
    /\ hexRet = <<>>
    /\ hexRet' = <<hexToRgba(hexArg, alphaArg)>>
    /\ UNCHANGED <<hexArg, alphaArg>>
    /\ UNCHANGED <<periodVars, storageVars, randomVars, numericVars, queryVars>>
    /\ UNCHANGED <<dayVars, facebookVars, jsonVars>>

HexNext == hexToRgba_call

(***************************************************************************)
(* parseValidDate and getUTCStartOfLocalDay (document/document.ts)         *)
(*                                                                         *)
(* A time value is kept as a day count from 1 January 1970 and a minute    *)
(* of that day, [day, minute], standing for day * 86400000 + minute *      *)
(* 60000 milliseconds; the instants tried are whole minutes.               *)
(***************************************************************************)
MinutesPerDay == 24 * 60

\* the largest day count of a time value: 8.64e15 ms / 86400000
MaxTimeDay == 100000000

Time(day, minute) == [day |-> day, minute |-> minute]

\* TimeClip: whether a time value is within +-8.64e15 milliseconds
InTimeRange(t) ==
    /\ t.day >= -MaxTimeDay
    /\ t.day < MaxTimeDay \/ (t.day = MaxTimeDay /\ t.minute = 0)

\* a Date holding the time value t, a number of milliseconds, and a number
\* that is beyond the range of time values
DateAt(t) == [kind |-> "date", valid |-> TRUE, time |-> t]
Timestamp(t) == [kind |-> "timestamp", time |-> t]
HugeTimestamp == [kind |-> "timestamp", time |-> Time(MaxTimeDay, 1)]

\* MakeDay: the day count of year y, month m (1..12), day d of the proleptic
\* Gregorian calendar
DaysFromCivil(y, m, d) ==
    LET yy == IF m <= 2 THEN y - 1 ELSE y
        era == yy \div 400
        yoe == yy - era * 400
        doy == (153 * (IF m > 2 THEN m - 3 ELSE m + 9) + 2) \div 5 + d - 1
        doe == yoe * 365 + yoe \div 4 - yoe \div 100 + doy
    IN  era * 146097 + doe - 719468

\* YearFromTime, MonthFromTime + 1 and DateFromTime of a day count
CivilFromDays(z) ==
    LET zz == z + 719468
        era == zz \div 146097
        doe == zz - era * 146097
        yoe == (doe - doe \div 1460 + doe \div 36524 - doe \div 146096) \div 365
        doy == doe - (365 * yoe + yoe \div 4 - yoe \div 100)
        mp == (5 * doy + 2) \div 153
        m == IF mp < 10 THEN mp + 3 ELSE mp - 9
    IN  [year |-> yoe + era * 400 + (IF m <= 2 THEN 1 ELSE 0),
         month |-> m,
         date |-> doy - (153 * mp + 2) \div 5 + 1]

\* LocalTime(t): t moved by the zone's offset (minutes ahead of UTC)
LocalTime(t, offset) ==
    Time(t.day + (t.minute + offset) \div MinutesPerDay, (t.minute + offset) % MinutesPerDay)

\* n in decimal, with zeros in front up to `width` characters
RECURSIVE Pad(_, _)
Pad(n, width) ==
    IF Len(NatToString(n)) >= width THEN NatToString(n)
    ELSE <<"0">> \o Pad(n, width - 1)

\* the value of a run of decimal digits
RECURSIVE DecimalOf(_)
DecimalOf(ds) ==
    IF ds = <<>> THEN 0
    ELSE 10 * DecimalOf(SubSeq(ds, 1, Len(ds) - 1))
             + ((CHOOSE i \in DOMAIN DigitChars : DigitChars[i] = ds[Len(ds)]) - 1)

\* the year of the date-time string format: four digits for 0..9999, else a
\* sign and six digits
IsoYear(y) ==
    IF y >= 0 /\ y <= 9999 THEN Pad(y, 4)
    ELSE IF y < 0 THEN <<"-">> \o Pad(0 - y, 6)
    ELSE <<"+">> \o Pad(y, 6)

\* Date.prototype.toISOString of a valid time value (UTC fields)
IsoString(t) ==
    LET c == CivilFromDays(t.day)
    IN  IsoYear(c.year) \o <<"-">> \o Pad(c.month, 2) \o <<"-">> \o Pad(c.date, 2)
            \o <<"T">> \o Pad(t.minute \div 60, 2) \o <<":">> \o Pad(t.minute % 60, 2)
            \o <<":", "0", "0", ".", "0", "0", "0", "Z">>

\* String.prototype.trim, for the white space " "
RECURSIVE trim(_)
trim(s) ==
    IF s # <<>> /\ Head(s) = " " THEN trim(Tail(s))
    ELSE IF s # <<>> /\ s[Len(s)] = " " THEN trim(SubSeq(s, 1, Len(s) - 1))
    ELSE s

\* the Date a time value gives: invalid when TimeClip answers NaN
DateOfTime(t) == IF InTimeRange(t) THEN DateAt(t) ELSE DateValue(FALSE)

\* new Date(string), for strings in the date-time string format with every
\* field present and the zone "Z"; a string of any other shape tried here is
\* one the platform does not parse
DateParse(s) ==
    LET signed == s # <<>> /\ s[1] \in {"+", "-"}
        yLen == IF signed THEN 7 ELSE 4
        yDigits == IF signed THEN SubSeq(s, 2, 7) ELSE SubSeq(s, 1, 4)
        rest == SubSeq(s, yLen + 1, Len(s))
        shaped == /\ Len(s) = yLen + 20
                  /\ IsDigits(yDigits)
                  /\ rest[1] = "-" /\ IsDigits(SubSeq(rest, 2, 3))
                  /\ rest[4] = "-" /\ IsDigits(SubSeq(rest, 5, 6))
                  /\ rest[7] = "T" /\ IsDigits(SubSeq(rest, 8, 9))
                  /\ rest[10] = ":" /\ IsDigits(SubSeq(rest, 11, 12))
                  /\ SubSeq(rest, 13, 20) = <<":", "0", "0", ".", "0", "0", "0", "Z">>
        y == IF signed /\ s[1] = "-" THEN 0 - DecimalOf(yDigits) ELSE DecimalOf(yDigits)
        m == DecimalOf(SubSeq(rest, 2, 3))
        d == DecimalOf(SubSeq(rest, 5, 6))
        hh == DecimalOf(SubSeq(rest, 8, 9))
        mm == DecimalOf(SubSeq(rest, 11, 12))
    IN  IF ~shaped THEN DateValue(FALSE)
        ELSE IF signed /\ s[1] = "-" /\ DecimalOf(yDigits) = 0 THEN DateValue(FALSE)
        ELSE IF m = 0 \/ m > 12 \/ d = 0 \/ d > 31 \/ hh > 23 \/ mm > 59 THEN DateValue(FALSE)
        ELSE DateOfTime(Time(DaysFromCivil(y, m, d), hh * 60 + mm))

\* lines 138-155: the Date, or Null
parseValidDate(value) ==
    LET date == CASE value.kind = "date" -> value
                  [] value.kind = "timestamp" -> DateOfTime(value.time)
                  [] value.kind = "NaN" -> DateValue(FALSE)
                  [] value.kind = "string" -> DateParse(trim(value.chars))
                  [] OTHER -> Null
    IN  IF date = Null THEN Null
        ELSE IF ~date.valid THEN Null
        ELSE date

\* new Date(Date.UTC(year, month - 1, date, 0, 0, 0, 0)): a year from 0 to 99
\* stands for 1900 + year
DateUTC(year, month, date) ==
    LET yr == IF year >= 0 /\ year <= 99 THEN 1900 + year ELSE year
    IN  DateOfTime(Time(DaysFromCivil(yr, month, date), 0))

DReturned(value) == [threw |-> FALSE, value |-> value]
DThrown == [threw |-> TRUE, value |-> Null]

\* lines 274-289; toISOString raises a RangeError on an invalid Date
getUTCStartOfLocalDay(source, offset) ==
    LET date == parseValidDate(source)
        local == CivilFromDays(LocalTime(date.time, offset).day)
        utcDate == DateUTC(local.year, local.month, local.date)
    IN  IF date = Null THEN DReturned(Null)
        ELSE IF ~utcDate.valid THEN DThrown
        ELSE DReturned(Str(IsoString(utcDate.time)))

\* the instants tried: days around the epoch, a leap day, 15 October 2025,
\* the years 0, 50, 99 and 100, the year 10000, and both ends of the range of
\* time values
SampleDays ==
    { 0, DaysFromCivil(2024, 2, 29), DaysFromCivil(2025, 10, 15),
      DaysFromCivil(0, 1, 1), DaysFromCivil(50, 6, 15), DaysFromCivil(99, 12, 31),
      DaysFromCivil(100, 1, 1), DaysFromCivil(9999, 12, 31),
      MaxTimeDay - 1, -MaxTimeDay }
SampleMinutes == {0, 60, 12 * 60, 23 * 60 + 1, MinutesPerDay - 1}
SampleTimes ==
    {Time(d, m) : <<d, m>> \in SampleDays \X SampleMinutes} \cup {Time(MaxTimeDay, 0)}

\* the local zones tried, in minutes ahead of UTC
ZoneOffsets == {-(12 * 60), -(5 * 60), 0, 2 * 60, 14 * 60}

DaySources ==
    {DateAt(t) : t \in SampleTimes}
        \cup {Timestamp(t) : t \in SampleTimes}
        \cup {Str(IsoString(t)) : t \in SampleTimes}
        \cup {Str(<<" ">> \o IsoString(t) \o <<" ", " ">>) : t \in SampleTimes}
        \cup { DateValue(FALSE), NaN, HugeTimestamp, Null, Undefined,
               Str(<<>>), Str(<<" ">>), Str(<<"a", "b", "c">>),
               Str(<<"2", "0", "2", "5", "-", "1", "3">>) }

DayInit ==
    /\ daySource \in DaySources
    /\ dayOffset \in ZoneOffsets
    /\ dayRet = <<>>
    /\ clock = 1000 * SecondsPerDay
    /\ tz = [before |-> 0, after |-> 0, at |-> 0]
    /\ pc = "idle"
    /\ fixedPeriod = NoValue
    /\ now = NoValue
    /\ result = NoResult
    /\ dayRead = NoValue
    /\ todayNow = NoValue
    /\ ret = NoRet
    /\ store = [k \in Keys |-> JNull]
    /\ initializedLS = FALSE
    /\ initializedTyped = FALSE
    /\ helperLS = <<>>
    /\ helperTyped = <<>>
    /\ factoryLog = [LS |-> <<>>, Typed |-> <<>>]
    /\ flips = [LS |-> 0, Typed |-> 0]
    /\ last = NoOp
    /\ rArgs = <<Undefined, Undefined>>
    /\ safeMin = 0
    /\ safeMax = 0
    /\ range = 0
    /\ limit = 0
    /\ array0 = 0
    /\ rpc = "idle"
    /\ rRet = NoValue
    /\ caller = "none"
    /\ countArg = Undefined
    /\ count = NoValue
    /\ used = {}
    /\ picked = <<>>
    /\ ppc = "idle"
    /\ numValue = Undefined
    /\ numOptions = NoOptions
    /\ numRet = <<>>
    /\ queryObj = Undefined
    /\ queryRet = <<>>
    /\ hexArg = Undefined
    /\ alphaArg = Undefined
    /\ hexRet = <<>>
    /\ fbUserId = Undefined
    /\ mobile = FALSE
    /\ fbPc = "idle"
    /\ elapsed = 0
    /\ appOpened = FALSE
    /\ href = <<>>
    /\ tabs = <<>>
    /\ jsonValue = Undefined
    /\ jsonText = <<>>
    /\ jsonBack = <<>>

\* the call getUTCStartOfLocalDay(daySource) in the zone dayOffset
getUTCStartOfLocalDay_call ==
    /\ dayRet = <<>>
    /\ dayRet' = <<getUTCStartOfLocalDay(daySource, dayOffset)>>
    /\ UNCHANGED <<daySource, dayOffset>>
    /\ UNCHANGED <<periodVars, storageVars, randomVars, numericVars, queryVars>>
    /\ UNCHANGED <<hexVars, facebookVars, jsonVars>>

DayNext == getUTCStartOfLocalDay_call

(***************************************************************************)
(* openNewTab and openFacebookProfile (env/openNewTab.ts,                  *)
(* env/openFacebookProfile.ts).  isMobile() is answered by the platform:   *)
(* its answer is the input `mobile`.  After the deep link is assigned the  *)
(* platform decides whether and when the Facebook app takes it, and when   *)
(* the timer runs: not before its delay, and as late as it likes.          *)
(***************************************************************************)
\* setTimeout's delay, line 49
FallbackDelay == 1500
\* the bound of the test of line 46
FallbackWindow == 1600

\* the clock is followed up to this many milliseconds after `now`
MaxElapsed == 2000
ClockSteps == {1, 99, 500}

\* `https://www.facebook.com/${fbUserId}`, line 34
fbUserProfile(id) ==
    Str(<<"h", "t", "t", "p", "s", ":", "/", "/", "w", "w", "w", ".", "f", "a", "c", "e",
          "b", "o", "o", "k", ".", "c", "o", "m", "/">> \o toString(id))

\* `fb://profile/${fbUserId}`, line 43
DeepLink(id) ==
    Str(<<"f", "b", ":", "/", "/", "p", "r", "o", "f", "i", "l", "e", "/">> \o toString(id))

\* openNewTab.ts lines 14-24: the calls of window.open after openNewTab(link)
openNewTab(opened, link) ==
    IF link.kind # "string" \/ trim(link.chars) = <<>> THEN opened
    ELSE Append(opened, link)

\* lines 45-49: the callback of setTimeout, run sinceNow milliseconds after `now`
DeferredCheck(opened, id, sinceNow) ==
    IF sinceNow < FallbackWindow THEN openNewTab(opened, fbUserProfile(id))
    ELSE opened

FbOptions == [notNegative |-> TRUE, isInteger |-> TRUE, allowEmpty |-> FALSE]

FbIds ==
    { Num(0), Num(42), Str(<<"4", "2">>), Str(<<"0", "0", "7">>),
      Num(-1), Half(1), Str(<<>>), Str(<<"4", ".", "2">>), Str(<<"-", "5">>), Undefined, NaN }

FacebookInit ==
    /\ fbUserId \in FbIds
    /\ mobile \in BOOLEAN
    /\ fbPc = "idle"
    /\ elapsed = 0
    /\ appOpened = FALSE
    /\ href = <<>>
    /\ tabs = <<>>
    /\ clock = 1000 * SecondsPerDay
    /\ tz = [before |-> 0, after |-> 0, at |-> 0]
    /\ pc = "idle"
    /\ fixedPeriod = NoValue
    /\ now = NoValue
    /\ result = NoResult
    /\ dayRead = NoValue
    /\ todayNow = NoValue
    /\ ret = NoRet
    /\ store = [k \in Keys |-> JNull]
    /\ initializedLS = FALSE
    /\ initializedTyped = FALSE
    /\ helperLS = <<>>
    /\ helperTyped = <<>>
    /\ factoryLog = [LS |-> <<>>, Typed |-> <<>>]
    /\ flips = [LS |-> 0, Typed |-> 0]
    /\ last = NoOp
    /\ rArgs = <<Undefined, Undefined>>
    /\ safeMin = 0
    /\ safeMax = 0
    /\ range = 0
    /\ limit = 0
    /\ array0 = 0
    /\ rpc = "idle"
    /\ rRet = NoValue
    /\ caller = "none"
    /\ countArg = Undefined
    /\ count = NoValue
    /\ used = {}
    /\ picked = <<>>
    /\ ppc = "idle"
    /\ numValue = Undefined
    /\ numOptions = NoOptions
    /\ numRet = <<>>
    /\ queryObj = Undefined
    /\ queryRet = <<>>
    /\ hexArg = Undefined
    /\ alphaArg = Undefined
    /\ hexRet = <<>>
    /\ daySource = Undefined
    /\ dayOffset = 0
    /\ dayRet = <<>>
    /\ jsonValue = Undefined
    /\ jsonText = <<>>
    /\ jsonBack = <<>>

\* lines 29-50, up to the return
openFacebookProfile_call ==
    /\ fbPc = "idle"
    /\ IF ~isNumeric(fbUserId, FbOptions)
       THEN /\ fbPc' = "done"
            /\ UNCHANGED <<href, tabs>>
       ELSE IF ~mobile
       THEN /\ tabs' = openNewTab(tabs, fbUserProfile(fbUserId))
            /\ fbPc' = "done"
            /\ UNCHANGED href
       ELSE /\ href' = <<DeepLink(fbUserId)>>
            /\ fbPc' = "scheduled"
            /\ UNCHANGED tabs
    /\ UNCHANGED <<fbUserId, mobile, elapsed, appOpened>>
    /\ UNCHANGED <<periodVars, storageVars, randomVars, numericVars, queryVars>>
    /\ UNCHANGED <<hexVars, dayVars, jsonVars>>

\* time passes while the timer is pending
ClockAdvances ==
    /\ fbPc = "scheduled"
    /\ \E step \in ClockSteps :
        /\ elapsed + step <= MaxElapsed
        /\ elapsed' = elapsed + step
    /\ UNCHANGED <<fbUserId, mobile, fbPc, appOpened, href, tabs>>
    /\ UNCHANGED <<periodVars, storageVars, randomVars, numericVars, queryVars>>
    /\ UNCHANGED <<hexVars, dayVars, jsonVars>>

\* the platform hands the deep link to the Facebook app
AppOpens ==
    /\ fbPc = "scheduled"
    /\ ~appOpened
    /\ appOpened' = TRUE
    /\ UNCHANGED <<fbUserId, mobile, fbPc, elapsed, href, tabs>>
    /\ UNCHANGED <<periodVars, storageVars, randomVars, numericVars, queryVars>>
    /\ UNCHANGED <<hexVars, dayVars, jsonVars>>

\* lines 45-49: the timer runs its callback
TimerFires ==
    /\ fbPc = "scheduled"
    /\ elapsed >= FallbackDelay
    /\ tabs' = DeferredCheck(tabs, fbUserId, elapsed)
    /\ fbPc' = "done"
    /\ UNCHANGED <<fbUserId, mobile, elapsed, appOpened, href>>
    /\ UNCHANGED <<periodVars, storageVars, randomVars, numericVars, queryVars>>
    /\ UNCHANGED <<hexVars, dayVars, jsonVars>>

FacebookNext ==
    \/ openFacebookProfile_call
    \/ ClockAdvances
    \/ AppOpens
    \/ TimerFires

(***************************************************************************)
(* safeJsonStringify followed by safeJsonParse, on texts                   *)
(* (helpers/safeJsonStringify.ts, unnamed/part_000).  Here JSON.stringify  *)
(* and JSON.parse work on the characters of the text; the storage helpers  *)
(* above use the same two functions on the few texts the store holds.      *)
(***************************************************************************)
\* const c = {}; c.self = c
Circular == [kind |-> "circular", n |-> 0]

Backslash == "\\"
Quote == "\""
Newline == "\n"

\* QuoteJSONString: the characters between quotes, with a backslash before a
\* quote and a backslash, and \n for a line feed
RECURSIVE EscapeJSON(_)
EscapeJSON(chars) ==
    IF chars = <<>> THEN <<>>
    ELSE (CASE Head(chars) = Quote -> <<Backslash, Quote>>
            [] Head(chars) = Backslash -> <<Backslash, Backslash>>
            [] Head(chars) = Newline -> <<Backslash, "n">>
            [] OTHER -> <<Head(chars)>>) \o EscapeJSON(Tail(chars))

QuoteJSONString(chars) == <<Quote>> \o EscapeJSON(chars) \o <<Quote>>

\* the values JSON.stringify gives undefined for
IsUnserializable(v) == v.kind \in {"undefined", "function", "symbol"}

\* SerializeJSONProperty: the text of a value, <<>> standing for undefined.
\* A non-finite number is written null; an object that is not plain has no
\* enumerable property here.
RECURSIVE SerializeJSON(_)
RECURSIVE SerializeJSONArray(_)
RECURSIVE SerializeJSONObject(_)
SerializeJSON(v) ==
    CASE IsUnserializable(v) -> <<>>
      [] v.kind = "null" -> <<"n", "u", "l", "l">>
      [] v.kind = "boolean" -> StringOf(v)
      [] v.kind \in {"NaN", "infinity"} -> <<"n", "u", "l", "l">>
      [] v.kind \in NumberKinds -> toString(v)
      [] v.kind = "string" -> QuoteJSONString(v.chars)
      [] v.kind = "array" -> <<"[">> \o Join(SerializeJSONArray(v.items), <<",">>) \o <<"]">>
      [] v.kind = "object" -> <<"{">> \o Join(SerializeJSONObject(v.entries), <<",">>) \o <<"}">>
      [] OTHER -> <<"{", "}">>

\* the texts of the elements: undefined is written null
SerializeJSONArray(items) ==
    IF items = <<>> THEN <<>>
    ELSE << IF IsUnserializable(Head(items)) THEN <<"n", "u", "l", "l">>
            ELSE SerializeJSON(Head(items)) >> \o SerializeJSONArray(Tail(items))

\* the texts of the properties: one whose value is undefined is left out
SerializeJSONObject(entries) ==
    IF entries = <<>> THEN <<>>
    ELSE (IF IsUnserializable(Head(entries)[2]) THEN <<>>
          ELSE << QuoteJSONString(Head(entries)[1]) \o <<":">> \o SerializeJSON(Head(entries)[2]) >>)
         \o SerializeJSONObject(Tail(entries))

TextReturned(v) == [threw |-> FALSE, value |-> v]
TextThrown == [threw |-> TRUE, value |-> Undefined]

\* whether the value reaches itself
RECURSIVE HasCycle(_)
HasCycle(v) ==
    CASE v.kind = "circular" -> TRUE
      [] v.kind = "array" -> \E i \in 1..Len(v.items) : HasCycle(v.items[i])
      [] v.kind = "object" -> \E i \in 1..Len(v.entries) : HasCycle(v.entries[i][2])
      [] OTHER -> FALSE

\* JSON.stringify(value): a TypeError on a cyclic structure, undefined for a
\* value that has no text, else the text
JSON_stringify(value) ==
    IF HasCycle(value) THEN TextThrown
    ELSE IF SerializeJSON(value) = <<>> THEN TextReturned(Undefined)
    ELSE TextReturned(Str(SerializeJSON(value)))

\* the outcome of reading one part of a text: whether it was well formed,
\* what was read, and the characters that follow it
Read(value, rest) == [ok |-> TRUE, value |-> value, rest |-> rest]
Unread == [ok |-> FALSE, value |-> Undefined, rest |-> <<>>]

\* the longest run of decimal digits s begins with
RECURSIVE LeadingDigits(_)
LeadingDigits(s) ==
    IF s # <<>> /\ Head(s) \in Digits THEN <<Head(s)>> \o LeadingDigits(Tail(s))
    ELSE <<>>

\* a number written with a fraction or an exponent that is none of the
\* numbers above
Decimal(negative, whole, fraction, exponent) ==
    [kind |-> "decimal", negative |-> negative, whole |-> whole,
     fraction |-> fraction, exponent |-> exponent]

\* the number a JSON number stands for: whole digits, fraction digits (<<>>
\* for none) and exponent (with its sign; <<>> for none)
NumberOfText(negative, whole, fraction, exponent) ==
    CASE fraction = <<>> /\ exponent = <<>> ->
            Num(IF negative THEN 0 - DecimalOf(whole) ELSE DecimalOf(whole))
      [] fraction = <<"5">> /\ exponent = <<>> ->
            Half(IF negative THEN 0 - DecimalOf(whole) - 1 ELSE DecimalOf(whole))
      [] ~negative /\ whole = <<"1">> /\ fraction = <<>> /\ exponent = <<"-", "7">> -> Tiny
      [] ~negative /\ whole = <<"1">> /\ fraction = <<>> /\ exponent = <<"+", "2", "1">> -> Huge
      [] OTHER -> Decimal(negative, whole, fraction, exponent)

\* JSONNumber: -? (0 | [1-9][0-9]*) (. [0-9]+)? ([eE] [+-]? [0-9]+)?
ReadNumber(s) ==
    LET negative == s # <<>> /\ Head(s) = "-"
        s1 == IF negative THEN Tail(s) ELSE s
        whole == LeadingDigits(s1)
        s2 == SubSeq(s1, Len(whole) + 1, Len(s1))
        dotted == s2 # <<>> /\ Head(s2) = "."
        fraction == IF dotted THEN LeadingDigits(Tail(s2)) ELSE <<>>
        s3 == IF dotted THEN SubSeq(s2, Len(fraction) + 2, Len(s2)) ELSE s2
        powered == s3 # <<>> /\ Head(s3) \in {"e", "E"}
        s4 == IF powered THEN Tail(s3) ELSE s3
        esign == IF powered /\ s4 # <<>> /\ Head(s4) \in {"+", "-"} THEN <<Head(s4)>> ELSE <<>>
        edigits == IF powered THEN LeadingDigits(SubSeq(s4, Len(esign) + 1, Len(s4))) ELSE <<>>
        s5 == IF powered THEN SubSeq(s4, Len(esign) + Len(edigits) + 1, Len(s4)) ELSE s3
    IN  IF whole = <<>> \/ (Len(whole) > 1 /\ Head(whole) = "0") THEN Unread
        ELSE IF dotted /\ fraction = <<>> THEN Unread
        ELSE IF powered /\ edigits = <<>> THEN Unread
        ELSE Read(NumberOfText(negative, whole, fraction, esign \o edigits), s5)

\* JSONString after its opening quote: the characters up to the closing
\* quote, an escape standing for its character.  The escapes read are
\* \" \\ \/ and \n; a line feed itself is not allowed in a string.
RECURSIVE ReadString(_, _)
ReadString(s, sofar) ==
    IF s = <<>> THEN Unread
    ELSE IF Head(s) = Quote THEN Read(Str(sofar), Tail(s))
    ELSE IF Head(s) = Newline THEN Unread
    ELSE IF Head(s) = Backslash
         THEN IF Len(s) < 2 THEN Unread
              ELSE IF s[2] \in {Quote, Backslash, "/"}
                   THEN ReadString(SubSeq(s, 3, Len(s)), Append(sofar, s[2]))
              ELSE IF s[2] = "n" THEN ReadString(SubSeq(s, 3, Len(s)), Append(sofar, Newline))
              ELSE Unread
    ELSE ReadString(Tail(s), Append(sofar, Head(s)))

\* CreateDataProperty on the object read so far: a name read again takes the
\* new value and keeps its place
DefineProperty(entries, name, value) ==
    IF \E i \in 1..Len(entries) : entries[i][1] = name
    THEN [i \in 1..Len(entries) |->
             IF entries[i][1] = name THEN <<name, value>> ELSE entries[i]]
    ELSE Append(entries, <<name, value>>)

\* whether the text s begins with the characters prefix
HasPrefix(s, prefix) == Len(s) >= Len(prefix) /\ SubSeq(s, 1, Len(prefix)) = prefix

\* JSONValue; white space between the tokens is not read, as
\* JSON.stringify writes none
RECURSIVE ReadValue(_)
RECURSIVE ReadElements(_, _)
RECURSIVE ReadMembers(_, _)
ReadValue(s) ==
    CASE HasPrefix(s, <<"n", "u", "l", "l">>) -> Read(Null, SubSeq(s, 5, Len(s)))
      [] HasPrefix(s, <<"t", "r", "u", "e">>) -> Read(Bool(TRUE), SubSeq(s, 5, Len(s)))
      [] HasPrefix(s, <<"f", "a", "l", "s", "e">>) -> Read(Bool(FALSE), SubSeq(s, 6, Len(s)))
      [] HasPrefix(s, <<Quote>>) -> ReadString(Tail(s), <<>>)
      [] HasPrefix(s, <<"[", "]">>) -> Read(Arr(<<>>), SubSeq(s, 3, Len(s)))
      [] HasPrefix(s, <<"{", "}">>) -> Read(Obj(<<>>), SubSeq(s, 3, Len(s)))
      [] HasPrefix(s, <<"[">>) -> ReadElements(Tail(s), <<>>)
      [] HasPrefix(s, <<"{">>) -> ReadMembers(Tail(s), <<>>)
      [] OTHER -> ReadNumber(s)

\* the elements of an array and its closing bracket
ReadElements(s, sofar) ==
    LET element == ReadValue(s)
    IN  IF ~element.ok \/ element.rest = <<>> THEN Unread
        ELSE IF Head(element.rest) = "]"
             THEN Read(Arr(Append(sofar, element.value)), Tail(element.rest))
        ELSE IF Head(element.rest) = ","
             THEN ReadElements(Tail(element.rest), Append(sofar, element.value))
        ELSE Unread

\* the members of an object and its closing brace
ReadMembers(s, sofar) ==
    LET name == IF HasPrefix(s, <<Quote>>) THEN ReadString(Tail(s), <<>>) ELSE Unread
        member == IF name.ok /\ HasPrefix(name.rest, <<":">>)
                  THEN ReadValue(Tail(name.rest)) ELSE Unread
    IN  IF ~member.ok \/ member.rest = <<>> THEN Unread
        ELSE IF Head(member.rest) = "}"
             THEN Read(Obj(DefineProperty(sofar, name.value.chars, member.value)),
                       Tail(member.rest))
        ELSE IF Head(member.rest) = ","
             THEN ReadMembers(Tail(member.rest),
                              DefineProperty(sofar, name.value.chars, member.value))
        ELSE Unread

\* JSON.parse(text): a SyntaxError unless the whole text is one value
JSON_parse(text) ==
    IF ReadValue(text).ok /\ ReadValue(text).rest = <<>>
    THEN TextReturned(ReadValue(text).value)
    ELSE TextThrown

\* safeJsonStringify.ts lines 21-28
safeJsonStringifyText(value) ==
    IF JSON_stringify(value).threw THEN Null ELSE JSON_stringify(value).value

\* unnamed/part_000 lines 21-32
safeJsonParseText(input) ==
    IF input.kind \in {"null", "undefined"} \/ input = Str(<<>>) \/ input.kind # "string"
    THEN Null
    ELSE IF JSON_parse(input.chars).threw THEN Null
    ELSE JSON_parse(input.chars).value

\* the values tried
JsonStrings ==
    { Str(<<>>), Str(<<"a">>), Str(<<Quote>>), Str(<<Backslash>>), Str(<<Newline>>),
      Str(<<Backslash, "n">>), Str(<<"n", "u", "l", "l">>), Str(<<"1">>),
      Str(<<"a", Quote, ",", Backslash, Quote>>), Str(<<"[", "]">>) }
JsonLeaves ==
    { Null, Bool(TRUE), Bool(FALSE), Num(0), Num(-2), Num(12), Half(2), Half(-3), Tiny, Huge }
        \cup JsonStrings
JsonElements ==
    { Null, Bool(FALSE), Num(-2), Half(2), Str(<<>>), Str(<<"a", Quote, ",", Backslash, Quote>>),
      Arr(<<>>), Obj(<<>>), Arr(<<Num(12)>>), Obj(<<<< <<"k">>, Str(<<"1">>) >>>>),
      Undefined, NaN, Circular }
JsonNames == { <<>>, <<"a">>, <<"a", Quote>>, <<"k">> }
JsonInputs ==
    JsonLeaves
        \cup {Arr(<<e>>) : e \in JsonElements}
        \cup {Arr(<<e, f>>) : <<e, f>> \in JsonElements \X JsonElements}
        \cup {Obj(<<<<k, e>>>>) : <<k, e>> \in JsonNames \X JsonElements}
        \cup {Obj(<<<< <<"b">>, e>>, <<k, f>>>>) :
                 <<e, k, f>> \in JsonElements \X JsonNames \X {Null, Num(-2), Arr(<<>>), Undefined}}
        \cup { Undefined, Function, Symbol, NaN, Infinity(1), Circular, Instance,
               Arr(<<>>), Obj(<<>>) }

JsonInit ==
    /\ jsonValue \in JsonInputs
    /\ jsonText = <<>>
    /\ jsonBack = <<>>
    /\ clock = 1000 * SecondsPerDay
    /\ tz = [before |-> 0, after |-> 0, at |-> 0]
    /\ pc = "idle"
    /\ fixedPeriod = NoValue
    /\ now = NoValue
    /\ result = NoResult
    /\ dayRead = NoValue
    /\ todayNow = NoValue
    /\ ret = NoRet
    /\ store = [k \in Keys |-> JNull]
    /\ initializedLS = FALSE
    /\ initializedTyped = FALSE
    /\ helperLS = <<>>
    /\ helperTyped = <<>>
    /\ factoryLog = [LS |-> <<>>, Typed |-> <<>>]
    /\ flips = [LS |-> 0, Typed |-> 0]
    /\ last = NoOp
    /\ rArgs = <<Undefined, Undefined>>
    /\ safeMin = 0
    /\ safeMax = 0
    /\ range = 0
    /\ limit = 0
    /\ array0 = 0
    /\ rpc = "idle"
    /\ rRet = NoValue
    /\ caller = "none"
    /\ countArg = Undefined
    /\ count = NoValue
    /\ used = {}
    /\ picked = <<>>
    /\ ppc = "idle"
    /\ numValue = Undefined
    /\ numOptions = NoOptions
    /\ numRet = <<>>
    /\ queryObj = Undefined
    /\ queryRet = <<>>
    /\ hexArg = Undefined
    /\ alphaArg = Undefined
    /\ hexRet = <<>>
    /\ daySource = Undefined
    /\ dayOffset = 0
    /\ dayRet = <<>>
    /\ fbUserId = Undefined
    /\ mobile = FALSE
    /\ fbPc = "idle"
    /\ elapsed = 0
    /\ appOpened = FALSE
    /\ href = <<>>
    /\ tabs = <<>>

\* the call safeJsonStringify(jsonValue)
safeJsonStringify_call ==
    /\ jsonText = <<>>
    /\ jsonText' = <<safeJsonStringifyText(jsonValue)>>
    /\ UNCHANGED <<jsonValue, jsonBack>>
    /\ UNCHANGED <<periodVars, storageVars, randomVars, numericVars, queryVars>>
    /\ UNCHANGED <<hexVars, dayVars, facebookVars>>

\* the call safeJsonParse(jsonText) on what safeJsonStringify returned
safeJsonParse_call ==
    /\ jsonText # <<>>
    /\ jsonBack = <<>>
    /\ jsonBack' = <<safeJsonParseText(jsonText[1])>>
    /\ UNCHANGED <<jsonValue, jsonText>>
    /\ UNCHANGED <<periodVars, storageVars, randomVars, numericVars, queryVars>>
    /\ UNCHANGED <<hexVars, dayVars, facebookVars>>

JsonNext ==
    \/ safeJsonStringify_call
    \/ safeJsonParse_call

(***************************************************************************)
(* Specifications                                                          *)
(***************************************************************************)
\* calculatePeriodBoundaries under a running clock; the storage is not used
SpecPeriod == PeriodInit /\ [][PeriodNext]_vars

\* the storage helpers; no period is computed
SpecStorage == StorageInit /\ [][StorageNext]_vars

\* the storage helpers used as a map: strings only, over a store that does
\* not throw
SpecStorageMap == StorageInit /\ [][StorageMapNext]_vars

\* isNumeric applied to one value under one set of options
SpecNumeric == NumericInit /\ [][NumericNext]_vars

\* getCryptoRandomInt, called from outside and by getRandomPastelColors
SpecRandom == RandomInit /\ [][RandomNext]_vars

\* a turn of the loop in which crypto.getRandomValues writes a word that the
\* test of line 90 accepts
AcceptedDraw == \E word \in 0..maxUint32 : word < limit /\ getRandomValues(word)

\* getCryptoRandomInt under fair draws: while words that are accepted exist,
\* one of them is drawn sooner or later
SpecRandomFair == RandomInit /\ [][RandomNext]_vars /\ WF_vars(AcceptedDraw)

\* urlQueryStringFromObject applied to one value
SpecQuery == QueryInit /\ [][QueryNext]_vars

\* one call of hexToRgba on each input
SpecHex == HexInit /\ [][HexNext]_vars

\* one call of getUTCStartOfLocalDay on each source, in each zone
SpecDay == DayInit /\ [][DayNext]_vars

\* one call of openFacebookProfile, the platform's answer to the deep link,
\* and the timer
SpecFacebook == FacebookInit /\ [][FacebookNext]_vars

\* safeJsonStringify on each value, then safeJsonParse on what it returned
SpecJson == JsonInit /\ [][JsonNext]_vars

(***************************************************************************)
(* Claims about calculatePeriodBoundaries (under SpecPeriod)               *)
(***************************************************************************)
Returned_(p) == pc = "done" /\ fixedPeriod = p

\* `now`, the first clock read of the call, as the returned milliseconds
NowMillis == Millis(now.n, 0)

\* C1: for every input that is not a value of the PeriodLengthInDays
\* enumeration (undefined, null, NaN, 3, 5) the call returns the AllTime
\* result: start = 0 and end = now, a finite timestamp.
C1_UnknownInputIsAllTime ==
    (pc = "done" /\ fixedPeriod \notin EnumValues)
        => (ret.start = Millis(0, 0) /\ ret.end = NowMillis)

\* C2: for each fixed-lookback selector N in 1, 3, 7, 30, 90 the call returns
\* end = now and start = now - N days: end - start = N * 86 400 000 ms.
C2_FixedLookbackSpan ==
    \A N \in {1, 3, 7, 30, 90} :
        Returned_(Num(N))
            => /\ ret.end = NowMillis
               /\ ret.start.kind = "number"
               /\ ret.end.ms = ret.start.ms
               /\ ret.end.sec - ret.start.sec = N * SecondsPerDay

\* C3: for Today, start is the local midnight of the calendar day that
\* contains the returned end, whatever time passes between the clock reads.
C3_TodayStartsAtMidnight ==
    Returned_(EnumMember("Today"))
        => /\ ret.end = NowMillis
           /\ ret.start = Millis(LocalMidnight(ret.end.sec), 0)

\* the local calendar day of the most recent Monday at instant t
MondayOf(t) == LocalDay(t) - ((IF GetDay(t) = 0 THEN 7 ELSE GetDay(t)) - 1)

\* C4: for ThisWeek, end = now and start is the local midnight of the most
\* recent Monday (Sunday counting as day 7), under every time-zone rule,
\* also when the UTC offset changes between that Monday and now.
C4_ThisWeekStartsMonday ==
    Returned_(EnumMember("ThisWeek"))
        => /\ ret.end = NowMillis
           /\ ret.start = Millis(MidnightOfDay(MondayOf(ret.end.sec)), 0)

\* the local calendar day of the 1st of the month of instant t
FirstOfMonth(t) == LocalDay(t) - (GetDate(t) - 1)

\* C5: for ThisMonth, end = now and start is the local midnight of the 1st
\* of the current month, also when the UTC offset changes in between.
C5_ThisMonthStartsOnFirst ==
    Returned_(EnumMember("ThisMonth"))
        => /\ ret.end = NowMillis
           /\ ret.start = Millis(MidnightOfDay(FirstOfMonth(ret.end.sec)), 0)


(***************************************************************************)
(* Claims about the storage helpers (under SpecStorage)                    *)
(***************************************************************************)
Factories == {"LS", "Typed"}
FlagOf(f) == IF f = "LS" THEN initializedLS ELSE initializedTyped
HelpersOf(f) == IF f = "LS" THEN helperLS ELSE helperTyped

\* C6: in any sequence of calls to one singleton factory, the first call
\* returns a helper and every later call throws; the factory's flag goes from
\* false to true exactly once and never returns to false.
C6_FactorySingleton ==
    \A f \in Factories :
        /\ \A i \in DOMAIN factoryLog[f] :
              factoryLog[f][i] = (IF i = 1 THEN "returned" ELSE "threw")
        /\ FlagOf(f) = (Len(factoryLog[f]) > 0)
        /\ flips[f] = (IF FlagOf(f) THEN 1 ELSE 0)
        /\ Len(HelpersOf(f)) = flips[f]

\* each factory has been called a second time, and the last call threw
C6_Witness ==
    /\ \A f \in Factories : Len(factoryLog[f]) >= 2
    /\ last.op = "create" /\ last.threw

\* C7: at most one bounded helper exists in the process, whichever of the
\* two factories are called and in whatever order.
C7_AtMostOneBoundedHelper == Len(helperLS) + Len(helperTyped) <= 1

\* C8: get, set and remove of a helper of either factory never raise; when
\* the store throws, get gives the sentinel ("" or null).
C8_GetSetRemoveNeverRaise ==
    (last.helper \in Factories /\ last.op \in {"get", "set", "remove"})
        => /\ ~last.threw
           /\ (last.op = "get" /\ last.storeFails) => last.value \in {JStr(""), JNull}

\* what getParsed is to return for key, given whether getItem threw
ParsedOrNull(key, storeFails) ==
    IF storeFails \/ store[key] = JNull \/ JsonParse(store[key].s).threw THEN JNull
    ELSE JsonParse(store[key].s).value

\* C9: getParsed of every helper never throws: it returns null for a missing
\* key, for text that is not JSON and when getItem throws, and the parsed
\* value otherwise.
C9_GetParsedNeverThrows ==
    last.op = "getParsed"
        => /\ ~last.threw
           /\ last.value = ParsedOrNull(last.key, last.storeFails)

\* C10: safeLocalStorage's set, get, getParsed and remove never throw, for
\* any key and value, whether or not the store throws or a factory was called.
C10_SafeLocalStorageNeverThrows ==
    last.helper \in {"Safe", "SafeEarly"} => ~last.threw

\* C11: clearAll of a createSafeTypedLocalStorage helper removes every key of
\* the helper's declared key set and leaves every other store entry as it
\* was, also when removeItem throws for one of the declared keys.
C11_ClearAllRemovesDeclaredOnly ==
    [][\A h \in 1..MaxFactoryCalls, failAt \in 0..Cardinality(Keys) :
          SafeTyped_clearAll(h, failAt)
              => \A k \in Keys :
                    store'[k] = (IF k \in Range(helperTyped[h]) THEN JNull ELSE store[k])]_vars

\* C20: isNumeric(".") and isNumeric("-.") are false under all eight
\* combinations of the options notNegative, isInteger and allowEmpty.
C20_LoneDotIsNotNumeric ==
    (numRet # <<>> /\ numValue \in {Str(<<".">>), Str(<<"-", ".">>)})
        => numRet = <<FALSE>>

\* isNumeric has returned for "-." under isInteger with the other options off
C20_Witness ==
    /\ numRet # <<>>
    /\ numValue = Str(<<"-", ".">>)
    /\ numOptions = [notNegative |-> FALSE, isInteger |-> TRUE, allowEmpty |-> FALSE]

\* the sanitized bounds <<lo, hi>> of a call: a missing or non-finite min is
\* 0 and max is 1, both are rounded and clamped to the safe integers, put in
\* order, and replaced by <<0, 1>> when they span more than 2^32 integers
SanitizedBounds(min, max) ==
    LET a == IF IsFiniteNumber(min) THEN MathRound(min) ELSE 0
        b == IF IsFiniteNumber(max) THEN MathRound(max) ELSE 1
        ca == MathMax(MIN_SAFE_INTEGER, MathMin(MAX_SAFE_INTEGER, a))
        cb == MathMax(MIN_SAFE_INTEGER, MathMin(MAX_SAFE_INTEGER, b))
        lo == MathMin(ca, cb)
        hi == MathMax(ca, cb)
    IN  IF hi - lo + 1 > TwoToTheWord THEN <<0, 1>> ELSE <<lo, hi>>

\* C12: the integer getCryptoRandomInt(min, max) returns lies between the
\* sanitized bounds of min and max, both included.
C12_ReturnedWithinSanitizedBounds ==
    rpc = "done"
        => /\ rRet.kind = "number"
           /\ SanitizedBounds(rArgs[1], rArgs[2])[1] <= rRet.n
           /\ rRet.n <= SanitizedBounds(rArgs[1], rArgs[2])[2]

\* getCryptoRandomInt(5, -2.5) has returned 5, the upper end of [-2, 5]
C12_Witness ==
    /\ rpc = "done"
    /\ rArgs = <<Num(5), Half(0 - 3)>>
    /\ rRet = Num(5)

\* the accepted words that getCryptoRandomInt maps to v
AcceptedFor(v) == {w \in 0..maxUint32 : w < limit /\ safeMin + (w % range) = v}

\* C13: when the loop is entered, the threshold is the largest multiple of
\* the range size among 0..2^32, the number of words there are, and every
\* value of [lo, hi] is the image of the same number of accepted words.
C13_ThresholdIsLargestMultiple ==
    rpc = "loop"
        => /\ limit = TwoToTheWord - (TwoToTheWord % range)
           /\ \A v \in safeMin..safeMax :
                 Cardinality(AcceptedFor(v)) = Cardinality(AcceptedFor(safeMin))

\* C14: for an integer n from 1 to the palette's length,
\* getRandomPastelColors(n) returns exactly n colors, no two of them equal
\* and each one a color of the palette.
C14_DistinctPaletteColors ==
    (ppc = "done" /\ countArg.kind = "number" /\ countArg.n \in 1..pastelColorsLength)
        => /\ Len(picked) = countArg.n
           /\ \A i \in 1..Len(picked), j \in 1..Len(picked) : picked[i] = picked[j] => i = j
           /\ \A i \in 1..Len(picked) : picked[i] \in Range(pastelColors)

\* getRandomPastelColors(paletteLength) has returned the whole palette, after
\* at least one index was drawn twice
C14_Witness ==
    /\ ppc = "done"
    /\ countArg = Num(pastelColorsLength)
    /\ Len(picked) = pastelColorsLength
    /\ picked # pastelColors

\* the number of colors C15 gives for a count: the floor of a number, held
\* within 1..paletteLength, and the palette's length for what is no number
ClampedCount(c) ==
    CASE c.kind \in {"number", "half", "tiny"} ->
            MathMin(MathMax(MathFloor(c), 1), pastelColorsLength)
      [] OTHER -> pastelColorsLength

\* C15: getRandomPastelColors(count) returns 1 color for a number below 1,
\* paletteLength colors for a number above paletteLength, floor(count) colors
\* for a number between them, and the whole palette for what is no number.
C15_CountClamped == ppc = "done" => Len(picked) = ClampedCount(countArg)

\* the text of s from its first character c on, c left out; s if it has no c
AfterFirst(s, c) ==
    IF \E i \in 1..Len(s) : s[i] = c
    THEN SubSeq(s, (CHOOSE i \in 1..Len(s) : s[i] = c /\ \A j \in 1..(i - 1) : s[j] # c) + 1, Len(s))
    ELSE s

\* the text of s before its first character c; s if it has no c
BeforeFirst(s, c) ==
    IF \E i \in 1..Len(s) : s[i] = c
    THEN SubSeq(s, 1, (CHOOSE i \in 1..Len(s) : s[i] = c /\ \A j \in 1..(i - 1) : s[j] # c) - 1)
    ELSE s

\* s cut at every character c
RECURSIVE Split(_, _)
Split(s, c) ==
    IF \E i \in 1..Len(s) : s[i] = c
    THEN <<BeforeFirst(s, c)>> \o Split(AfterFirst(s, c), c)
    ELSE <<s>>

StartsWith(s, prefix) == Len(s) >= Len(prefix) /\ SubSeq(s, 1, Len(prefix)) = prefix

\* the call has returned a string
QueryReturned == queryRet # <<>> /\ ~queryRet[1].threw
\* the parts of the returned string: what follows the "?", cut at every "&"
ReturnedParts ==
    IF queryRet[1].value = <<>> THEN <<>> ELSE Split(Tail(queryRet[1].value), "&")

RECURSIVE ConcatAll(_)
ConcatAll(lists) == IF lists = <<>> THEN <<>> ELSE Head(lists) \o ConcatAll(Tail(lists))

\* the values for which no part is written
IsSkipped(v) == v.kind \in {"null", "undefined", "function", "symbol", "NaN", "infinity"}

\* the written leaves of a value in depth-first order, each with the keys
\* that lead to it: an element of an array adds the empty key, a property of
\* an object adds its name
RECURSIVE LeafPaths(_, _)
LeafPaths(path, v) ==
    CASE v.kind = "array" ->
            ConcatAll([i \in 1..Len(v.items) |-> LeafPaths(Append(path, <<>>), v.items[i])])
      [] v.kind = "object" ->
            ConcatAll([i \in 1..Len(v.entries) |->
                          LeafPaths(Append(path, v.entries[i][1]), v.entries[i][2])])
      [] IsSkipped(v) -> <<>>
      [] OTHER -> <<[path |-> path, leaf |-> v]>>

\* key[k2][k3]... of a path <<key, k2, k3, ...>>
KeyText(path) ==
    path[1] \o ConcatAll([i \in 1..(Len(path) - 1) |-> <<"[">> \o path[i + 1] \o <<"]">>])

\* the URL-encoded text of a written leaf
LeafText(v) == encodeURIComponent(IF v.kind = "date" THEN toISOString ELSE StringOf(v))

PartText(lp) == KeyText(lp.path) \o <<"=">> \o LeafText(lp.leaf)

\* C16, as claimed: the returned string is "" exactly when the argument is not
\* a plain object or has no property, and begins with "?" for every other
\* argument, also when no value of it is written.
C16_EmptyOnlyForNoProperties ==
    QueryReturned
        => /\ (queryRet[1].value = <<>>)
                  <=> (~isPlainObject(queryObj) \/ Len(queryObj.entries) = 0)
           /\ queryRet[1].value # <<>> => Head(queryRet[1].value) = "?"

\* C16, amended: the returned string is "" exactly when the argument is not a
\* plain object, has no property, or has no written leaf; otherwise it is "?"
\* followed by one "&"-separated part for each written leaf.
C16_EmptyWhenNothingWritten ==
    QueryReturned
        => /\ (queryRet[1].value = <<>>)
                  <=> \/ ~isPlainObject(queryObj)
                      \/ Len(queryObj.entries) = 0
                      \/ LeafPaths(<<>>, queryObj) = <<>>
           /\ queryRet[1].value # <<>>
                  => /\ Head(queryRet[1].value) = "?"
                     /\ Len(ReturnedParts) = Len(LeafPaths(<<>>, queryObj))

\* {page: null, tags: [NaN]} has given ""
C16_Witness ==
    /\ queryObj = Obj(<<<<<<"p", "a", "g", "e">>, Null>>, <<<<"t", "a", "g", "s">>, Arr(<<NaN>>)>>>>)
    /\ queryRet = <<QReturned(<<>>)>>

\* the arrays held by a property p of an object that is an element of the
\* array of a top-level property k, as <<k, p, array>>
ArraysInElementObjects ==
    IF ~isPlainObject(queryObj) THEN {}
    ELSE {<<queryObj.entries[e][1], queryObj.entries[e][2].items[i].entries[q][1],
            queryObj.entries[e][2].items[i].entries[q][2]>> :
             <<e, i, q>> \in
                 {t \in (1..2) \X (1..(MaxItems + 1)) \X (1..2) :
                     /\ t[1] <= Len(queryObj.entries)
                     /\ queryObj.entries[t[1]][2].kind = "array"
                     /\ t[2] <= Len(queryObj.entries[t[1]][2].items)
                     /\ isPlainObject(queryObj.entries[t[1]][2].items[t[2]])
                     /\ t[3] <= Len(queryObj.entries[t[1]][2].items[t[2]].entries)
                     /\ queryObj.entries[t[1]][2].items[t[2]].entries[t[3]][2].kind = "array"}}

\* C17, as claimed: an array held by an object that is an element of an array
\* is not gone into: no part is written under key[][prop][].
C17_OneLevelOnly ==
    QueryReturned
        => \A a \in ArraysInElementObjects :
              \A i \in 1..Len(ReturnedParts) :
                  ~StartsWith(ReturnedParts[i], KeyText(<<a[1], <<>>, a[2], <<>>>>))

\* C17, amended: the properties of an object that is an element of an array
\* are written under key[][prop] by the same rules as any value: an array
\* held by such an object is gone into, each written leaf of it giving a part
\* under key[][prop][] and the keys that lead to the leaf inside the array.
C17_ElementObjectsAreRecursedInto ==
    QueryReturned
        => \A a \in ArraysInElementObjects :
              \A j \in 1..Len(LeafPaths(<<a[1], <<>>, a[2]>>, a[3])) :
                  \E i \in 1..Len(ReturnedParts) :
                      ReturnedParts[i] = PartText(LeafPaths(<<a[1], <<>>, a[2]>>, a[3])[j])

\* {page: [{x: [1]}]} has given "?page[][x][]=1"
C17_Witness ==
    /\ queryObj = Obj(<<<<<<"p", "a", "g", "e">>, Arr(<<Obj(<<<<<<"x">>, Arr(<<Num(1)>>)>>>>)>>)>>>>)
    /\ queryRet = <<QReturned(<<"?", "p", "a", "g", "e", "[", "]", "[", "x", "]", "[", "]", "=", "1">>)>>

\* the leaves of a value that are not among the skipped ones, in the order
\* in which they are met
RECURSIVE WrittenLeaves(_)
WrittenLeaves(v) ==
    CASE v.kind = "array" -> ConcatAll([i \in 1..Len(v.items) |-> WrittenLeaves(v.items[i])])
      [] v.kind = "object" ->
            ConcatAll([i \in 1..Len(v.entries) |-> WrittenLeaves(v.entries[i][2])])
      [] IsSkipped(v) -> <<>>
      [] OTHER -> <<v>>

\* C18: null, undefined, a function, a symbol, NaN and the infinities give no
\* part wherever they stand (top level, in an object, in an array), and every
\* other leaf gives exactly one part, key=urlEncodedValue.
C18_SkippedValuesGiveNoPart ==
    (QueryReturned /\ isPlainObject(queryObj))
        => /\ Len(ReturnedParts) = Len(WrittenLeaves(queryObj))
           /\ \A i \in 1..Len(ReturnedParts) :
                 /\ \E j \in 1..Len(ReturnedParts[i]) : ReturnedParts[i][j] = "="
                 /\ AfterFirst(ReturnedParts[i], "=") = LeafText(WrittenLeaves(queryObj)[i])

\* {page: [function, "a &"], tags: {x: NaN}} has given "?page[]=a%20%26"
C18_Witness ==
    /\ queryObj = Obj(<<<<<<"p", "a", "g", "e">>,
                         Arr(<<Function, Str(<<"a", " ", "&">>)>>)>>,
                       <<<<"t", "a", "g", "s">>, Obj(<<<<<<"x">>, NaN>>>>)>>>>)
    /\ queryRet = <<QReturned(<<"?", "p", "a", "g", "e", "[", "]", "=", "a", "%", "2", "0",
                                "%", "2", "6">>)>>

\* C19: the parts are those of the written leaves in depth-first order, the
\* properties in enumeration order and the elements in index order, an
\* element under key[] and a property under key[prop].
C19_DepthFirstInOrder ==
    (QueryReturned /\ isPlainObject(queryObj))
        => ReturnedParts = [i \in 1..Len(LeafPaths(<<>>, queryObj)) |->
                               PartText(LeafPaths(<<>>, queryObj)[i])]

\* {page: 1, tags: ["a", "b"]} has given "?page=1&tags[]=a&tags[]=b"
C19_Witness ==
    /\ queryObj = Obj(<<<<<<"p", "a", "g", "e">>, Num(1)>>,
                       <<<<"t", "a", "g", "s">>, Arr(<<Str(<<"a">>), Str(<<"b">>)>>)>>>>)
    /\ queryRet = <<QReturned(<<"?", "p", "a", "g", "e", "=", "1", "&",
                                "t", "a", "g", "s", "[", "]", "=", "a", "&",
                                "t", "a", "g", "s", "[", "]", "=", "b">>)>>

\* the value of a sequence of decimal digits
RECURSIVE DigitsValue(_)
DigitsValue(ds) ==
    IF ds = <<>> THEN 0
    ELSE 10 * DigitsValue(SubSeq(ds, 1, Len(ds) - 1))
             + ((CHOOSE i \in DOMAIN DigitChars : DigitChars[i] = ds[Len(ds)]) - 1)

\* the longest run of decimal digits s begins with
DigitPrefix(s) ==
    SubSeq(s, 1, CHOOSE n \in 0..Len(s) :
                     /\ IsDigits(SubSeq(s, 1, n))
                     /\ n < Len(s) => s[n + 1] \notin Digits)

\* parseInt(s, 10) of a string without white space: an optional sign, then as
\* many decimal digits as there are; NaN when there is none
parseInt(s) ==
    LET signed == Len(s) > 0 /\ s[1] \in {"-", "+"}
        body == IF signed THEN Tail(s) ELSE s
    IN  IF DigitPrefix(body) = <<>> THEN NaN
        ELSE IF signed /\ s[1] = "-" THEN Num(0 - DigitsValue(DigitPrefix(body)))
        ELSE Num(DigitsValue(DigitPrefix(body)))

\* C21: a string that isNumeric accepts under {isInteger: true,
\* notNegative: true} is a non-empty sequence of decimal digits, and parseInt
\* gives a non-negative integer for it.
C21_AcceptedIntegerParses ==
    (/\ numRet = <<TRUE>>
     /\ numValue.kind = "string"
     /\ numOptions = [notNegative |-> TRUE, isInteger |-> TRUE, allowEmpty |-> FALSE])
        => /\ numValue.chars # <<>>
           /\ IsDigits(numValue.chars)
           /\ parseInt(numValue.chars).kind = "number"
           /\ parseInt(numValue.chars).n >= 0
           /\ parseInt(numValue.chars).n = DigitsValue(numValue.chars)

\* isNumeric("05", {isInteger: true, notNegative: true}) has returned true
C21_Witness ==
    /\ numRet = <<TRUE>>
    /\ numValue = Str(<<"0", "5">>)
    /\ numOptions = [notNegative |-> TRUE, isInteger |-> TRUE, allowEmpty |-> FALSE]

\* C28: a non-empty string that isNumeric accepts, whatever the options,
\* holds at least one decimal digit; the lone sign "-" is rejected.
C28_AcceptedStringHasDigit ==
    (numRet = <<TRUE>> /\ numValue.kind = "string" /\ numValue.chars # <<>>)
        => \E i \in 1..Len(numValue.chars) : numValue.chars[i] \in Digits

\* C27: for every value of the PeriodLengthInDays enumeration the returned
\* start is not after the returned end, whatever time passes between the
\* clock reads of the call.
C27_StartNotAfterEnd ==
    (pc = "done" /\ fixedPeriod \in EnumValues)
        => /\ ret.start.kind = "number"
           /\ ret.end.kind = "number"
           /\ \/ ret.start.sec < ret.end.sec
              \/ ret.start.sec = ret.end.sec /\ ret.start.ms <= ret.end.ms

\* C29: a call of urlQueryStringFromObject never ends by an exception: it
\* returns a string, an invalid Date at any depth being skipped.
C29_NeverRaises == queryRet # <<>> => ~queryRet[1].threw

\* C26: whenever the loop of getCryptoRandomInt is entered the threshold
\* `limit` is above 0, and under fair draws the loop ends with a returned
\* integer.
C26_LoopEnds ==
    /\ [](rpc = "loop" => limit > 0)
    /\ (rpc = "loop") ~> (rpc = "done")


(***************************************************************************)
(* Claims about hexToRgba (under SpecHex)                                  *)
(***************************************************************************)
LowerHex == {"a", "b", "c", "d", "e", "f"}
UpperHex == {"A", "B", "C", "D", "E", "F"}

\* hex without one leading "#"
Unhashed(hex) == IF Len(hex) > 0 /\ hex[1] = "#" THEN Tail(hex) ELSE hex

\* exactly six hexadecimal digits after an optional "#"
IsSixHex(hex) ==
    /\ Len(Unhashed(hex)) = 6
    /\ \A i \in 1..6 : Unhashed(hex)[i] \in Digits \cup LowerHex \cup UpperHex

OtherCase(c) ==
    CASE c = "a" -> "A" [] c = "b" -> "B" [] c = "c" -> "C" [] c = "d" -> "D"
      [] c = "e" -> "E" [] c = "f" -> "F" [] c = "A" -> "a" [] c = "B" -> "b"
      [] c = "C" -> "c" [] c = "D" -> "d" [] c = "E" -> "e" [] c = "F" -> "f"
      [] OTHER -> c

\* the same colour with every letter in the other case
CaseSwapped(hex) == [i \in 1..Len(hex) |-> OtherCase(hex[i])]

\* text reads rgba(r, g, b, <anything>) with r, g and b in 0..255
HasByteComponents(text) ==
    \E r \in 0..255 :
        /\ StartsWith(text, <<"r", "g", "b", "a", "(">> \o NatToString(r) \o <<",", " ">>)
        /\ \E g \in 0..255 :
            /\ StartsWith(text, <<"r", "g", "b", "a", "(">> \o NatToString(r) \o <<",", " ">>
                                    \o NatToString(g) \o <<",", " ">>)
            /\ \E b \in 0..255 :
                StartsWith(text, <<"r", "g", "b", "a", "(">> \o NatToString(r) \o <<",", " ">>
                                     \o NatToString(g) \o <<",", " ">>
                                     \o NatToString(b) \o <<",", " ">>)

\* C25: a colour of six hexadecimal digits gives the same text with and
\* without the leading "#" and in either letter case, with r, g and b in
\* 0..255; every other string gives null.
C25_HashAndCaseDoNotMatter ==
    hexRet # <<>> =>
        IF IsSixHex(hexArg.chars)
        THEN /\ hexRet[1].kind = "string"
             /\ hexRet[1] = hexToRgba(Str(Unhashed(hexArg.chars)), alphaArg)
             /\ hexRet[1] = hexToRgba(Str(<<"#">> \o Unhashed(hexArg.chars)), alphaArg)
             /\ hexRet[1] = hexToRgba(Str(CaseSwapped(hexArg.chars)), alphaArg)
             /\ HasByteComponents(hexRet[1].chars)
        ELSE hexRet[1] = Null

C25_Witness ==
    /\ hexArg = Str(<<"#", "F", "f", "a", "9", "0", "0">>)
    /\ alphaArg = Half(0)
    /\ hexRet = <<Str(<<"r", "g", "b", "a", "(", "2", "5", "5", ",", " ", "1", "6", "9",
                        ",", " ", "0", ",", " ", "0", ".", "5", ")">>)>>

(***************************************************************************)
(* Claims about getUTCStartOfLocalDay (under SpecDay)                      *)
(***************************************************************************)
\* the source holds a time value
Parseable(source) == parseValidDate(source) # Null

\* year, month and day the local clock shows at the source's instant
LocalFields == CivilFromDays(LocalTime(parseValidDate(daySource).time, dayOffset).day)

\* the text of 00:00:00.000 UTC on the day (year, month, date)
MidnightText(year, month, date) ==
    IsoYear(year) \o <<"-">> \o Pad(month, 2) \o <<"-">> \o Pad(date, 2)
        \o <<"T", "0", "0", ":", "0", "0", ":", "0", "0", ".", "0", "0", "0", "Z">>

\* C24: null for an unparseable source; otherwise the ISO-8601 text of
\* 00:00:00.000 UTC on the day whose UTC year, month and day are the
\* source's local year, month and day, whatever the date and the zone.
C24_UtcMidnightOfLocalDay ==
    dayRet # <<>> =>
        /\ ~dayRet[1].threw
        /\ IF Parseable(daySource)
           THEN dayRet[1].value
                    = Str(MidnightText(LocalFields.year, LocalFields.month, LocalFields.date))
           ELSE dayRet[1].value = Null

(***************************************************************************)
(* Claims about openFacebookProfile (under SpecFacebook)                   *)
(***************************************************************************)
\* the call was on a mobile device with a valid id
MobileCall == fbPc # "idle" /\ mobile /\ isNumeric(fbUserId, FbOptions)

\* C23: on a mobile device with a valid id the call navigates to the deep
\* link and schedules one deferred check; once the check has run, the web
\* profile was opened if the Facebook app did not open, and nothing was
\* opened if it did.
C23_CheckFollowsTheApp ==
    MobileCall =>
        /\ href = <<DeepLink(fbUserId)>>
        /\ fbPc = "scheduled" => tabs = <<>>
        /\ fbPc = "done" =>
              IF appOpened THEN tabs = <<>> ELSE tabs = <<fbUserProfile(fbUserId)>>

(***************************************************************************)
(* Claims about safeJsonStringify and safeJsonParse (under SpecJson)       *)
(***************************************************************************)
\* null, a boolean, a finite number, a string, or an array or a plain object
\* of such values
RECURSIVE IsJsonSafe(_)
IsJsonSafe(v) ==
    CASE v.kind \in {"null", "boolean", "string", "number", "half", "tiny", "huge"} -> TRUE
      [] v.kind = "array" -> \A i \in 1..Len(v.items) : IsJsonSafe(v.items[i])
      [] v.kind = "object" -> \A i \in 1..Len(v.entries) : IsJsonSafe(v.entries[i][2])
      [] OTHER -> FALSE

\* the same value: arrays element by element, objects property by property
\* whatever the order of the properties
RECURSIVE StructurallyEqual(_, _)
StructurallyEqual(a, b) ==
    CASE a.kind # b.kind -> FALSE
      [] a.kind = "array" ->
            /\ Len(a.items) = Len(b.items)
            /\ \A i \in 1..Len(a.items) : StructurallyEqual(a.items[i], b.items[i])
      [] a.kind = "object" ->
            /\ {a.entries[i][1] : i \in 1..Len(a.entries)}
                   = {b.entries[i][1] : i \in 1..Len(b.entries)}
            /\ Len(a.entries) = Len(b.entries)
            /\ \A i \in 1..Len(a.entries) : \E j \in 1..Len(b.entries) :
                   /\ a.entries[i][1] = b.entries[j][1]
                   /\ StructurallyEqual(a.entries[i][2], b.entries[j][2])
      [] OTHER -> a = b

\* JSON.stringify has no text for the value
CannotBeSerialized(v) == HasCycle(v) \/ IsUnserializable(v)

\* C22: safeJsonParse(safeJsonStringify(x)) is structurally equal to x for
\* every JSON-safe x, and safeJsonStringify returns null for a value that
\* cannot be serialized.
C22_RoundTripAndNullOnFailure ==
    /\ (jsonBack # <<>> /\ IsJsonSafe(jsonValue)) => StructurallyEqual(jsonBack[1], jsonValue)
    /\ (jsonText # <<>> /\ CannotBeSerialized(jsonValue)) => jsonText[1] = Null

(***************************************************************************)
(* Claims about the storage helpers used as a map (under SpecStorageMap)   *)
(***************************************************************************)
\* C30: over a store that does not throw the store is the map of every
\* helper.  set(k, s) of a string s makes s the value of k and remove(k)
\* and clearAll() take the value away, each leaving every other key as it
\* was; get(k) changes nothing and returns the value of k, which is
\* therefore the string set last since the last removal, or else the
\* sentinel: "" for createLocalStorageHelper, null for the others.
C30_HelpersAreAMap ==
    [][/\ \A key \in Keys, s \in StringData :
             (\/ LocalStorageHelper_set(key, s, FALSE, FALSE)
              \/ SafeTyped_set(key, s, FALSE, FALSE)
              \/ safeLocalStorage_set(key, s, FALSE, FALSE)
              \/ safeLocalStorageEarly_set(key, s, FALSE, FALSE))
                 => store' = [store EXCEPT ![key] = s]
       /\ \A key \in Keys :
             (\/ LocalStorageHelper_remove(key, FALSE)
              \/ SafeTyped_remove(key, FALSE)
              \/ safeLocalStorage_remove(key, FALSE)
              \/ safeLocalStorageEarly_remove(key, FALSE))
                 => store' = [store EXCEPT ![key] = JNull]
       /\ \A h \in 1..MaxFactoryCalls :
             SafeTyped_clearAll(h, 0)
                 => \A k \in Keys :
                       store'[k] = (IF k \in Range(helperTyped[h]) THEN JNull ELSE store[k])
       /\ \A key \in Keys :
             LocalStorageHelper_get(key, FALSE)
                 => /\ store' = store
                    /\ ~last'.threw
                    /\ last'.value = (IF store[key] = JNull THEN JStr("") ELSE store[key])
       /\ \A key \in Keys :
             (\/ SafeTyped_get(key, FALSE)
              \/ safeLocalStorage_get(key, FALSE)
              \/ safeLocalStorageEarly_get(key, FALSE))
                 => /\ store' = store
                    /\ ~last'.threw
                    /\ last'.value = store[key]]_vars

\* a helper has read back the string set last for one key while the other
\* key holds the empty string
C30_Witness ==
    /\ last.helper = "Typed" /\ last.op = "get" /\ last.key = "theme"
    /\ last.value = JStr("light")
    /\ store = [theme |-> JStr("light"), user |-> JStr("")]

====
